---- MODULE Spec2Model ----
(***************************************************************************)
(* A model of DatabaseHandler (src/index.ts), the cache-aside persistence  *)
(* layer over PostgresHandler (the durable store) and RedisHandler (the    *)
(* cache).                                                                 *)
(*                                                                         *)
(* Every handler is cut at its awaits: one action per store call and per   *)
(* continuation.  A store call is executed by its store in the step that   *)
(* takes it; the continuation that uses its answer is a later step, so     *)
(* other callers can run in between.  Each store call can also fail.       *)
(*                                                                         *)
(* The cache has one connection, and it executes commands in the order of  *)
(* issue.  A command whose time of issue is fixed by something else the    *)
(* handler does at that moment (the cache half of a Promise.all, issued    *)
(* with the store half; a cache population, issued as the handler          *)
(* returns) waits in redisQueue.  Any other command is issued by a         *)
(* continuation that can run at any later time, and is modelled by one     *)
(* step that issues and executes it once the queue is empty.               *)
(*                                                                         *)
(* Promise.all rejects with the first failure; the calls still pending     *)
(* then go on with nobody awaiting them, and the handler's caller has its   *)
(* answer (result) while the handler's remaining steps (pc) still run.     *)
(***************************************************************************)
EXTENDS Integers, Sequences, FiniteSets, TLC

\* ------------------------------------------------------------------ bounds
\* Storage identifiers that can be generated in one run.
MaxStorages == 3
\* Handler calls in one run of two interleaved callers.
MaxRaceCalls == 3
\* Handler calls in one run on the cached collections.
MaxCollCalls == 2
\* The clock runs from 0 to MaxTime.
MaxTime == 1
\* The calls the caller of the member handlers makes, and those the caller
\* of the resets and restores makes.
MaxMemberCalls == 2
MaxEpochCalls == 3
MaxStatusCalls == 3
MaxCurrentCalls == 3
MaxLostCalls == 3
MaxStaleCalls == 2
MaxPartialCalls == 3

\* ------------------------------------------------------------------ values
\* JavaScript values are modelled as strings: null and undefined are the two
\* words below, a number n is written "#n" and its decimal text is "n", and
\* a boolean is written "#true" or "#false".
NULL == "null"
UNDEFINED == "undefined"

Guilds == {"G1", "G2"}
Procs == {1, 2}

IDNames == <<"s1", "s2", "s3", "s4", "s5", "s6">>

\* String(number) and parseInt(value) on the numbers the model uses.
NumberNames == <<"#0", "#1", "#2", "#3", "#4", "#5", "#6", "#7", "#8", "#9", "#10", "#11",
                 "#12">>
DecimalNames == <<"0", "1", "2", "3", "4", "5", "6", "7", "8", "9", "10", "11", "12">>
NegativeNames == <<"#-1", "#-2", "#-3", "#-4", "#-5", "#-6", "#-7", "#-8", "#-9", "#-10",
                   "#-11", "#-12">>
Numbers == {NumberNames[i] : i \in DOMAIN NumberNames}
NumberToString(v) == DecimalNames[CHOOSE i \in DOMAIN NumberNames : NumberNames[i] = v]
parseInt(s) ==
    IF s \in Numbers THEN s
    ELSE IF \E i \in DOMAIN DecimalNames : DecimalNames[i] = s
         THEN NumberNames[CHOOSE i \in DOMAIN DecimalNames : DecimalNames[i] = s]
         ELSE "NaN"

\* The integer a number stands for, and the number of an integer.
ToInt(v) ==
    IF v \in Numbers THEN (CHOOSE i \in DOMAIN NumberNames : NumberNames[i] = v) - 1
    ELSE 0 - (CHOOSE i \in DOMAIN NegativeNames : NegativeNames[i] = v)
Num(n) == IF n >= 0 THEN NumberNames[n + 1] ELSE NegativeNames[0 - n]

\* regular + bonus - leaves - fake on numbers: NaN when one of them is NaN.
NetInvites(regular, bonus, leaves, fake) ==
    IF "NaN" \in {regular, bonus, leaves, fake} THEN "NaN"
    ELSE Num(ToInt(regular) + ToInt(bonus) - ToInt(leaves) - ToInt(fake))

\* JavaScript truthiness of a string, number, boolean or missing value.
Truthy(v) == v \notin {NULL, UNDEFINED, "", "#false", "#0", "NaN"}

\* new Date() at clock value t, Date.toISOString() and
\* new Date(text).getTime().
DateNames == <<"Date(0)", "Date(1)", "Date(2)", "Date(3)">>
ISONames == <<"1970-01-01T00:00:00.000Z", "1970-01-01T00:00:00.001Z",
              "1970-01-01T00:00:00.002Z", "1970-01-01T00:00:00.003Z">>
Dates == {DateNames[i] : i \in DOMAIN DateNames}
NewDate(t) == DateNames[t + 1]
toISOString(d) == ISONames[CHOOSE i \in DOMAIN DateNames : DateNames[i] = d]
getTime(text) == (CHOOSE i \in DOMAIN ISONames : ISONames[i] = text) - 1

\* change-case's snakeCase on the field names callers pass.
snakeCase(name) ==
    CASE name = "language" -> "language"
      [] name = "prefix" -> "prefix"
      [] name = "cmdChannel" -> "cmd_channel"
      [] name = "fakeThreshold" -> "fake_threshold"
      [] name = "storageID" -> "storage_id"
      [] name = "guildID" -> "guild_id"
      [] name = "expiresAt" -> "expires_at"
      [] name = "createdAt" -> "created_at"
      [] name = "subLabel" -> "sub_label"
      [] name = "guildsCount" -> "guilds_count"
      [] name = "patreonUserID" -> "patreon_user_id"
      [] name = "subInvalidated" -> "sub_invalidated"
      [] name = "channelID" -> "channel_id"
      [] name = "inviteCount" -> "invite_count"
      [] name = "alert_type" -> "alert_type"
      [] OTHER -> name

\* JSON.parse(JSON.stringify(entity)): a property that is undefined is left
\* out, and a Date becomes its ISO text.
JSONValue(e) ==
    [k \in {f \in DOMAIN e : e[f] # UNDEFINED} |->
        IF e[k] \in Dates THEN toISOString(e[k]) ELSE e[k]]

\* JSON.parse(JSON.stringify(list)) of a list of entities.
JSONList(l) == [i \in DOMAIN l |-> JSONValue(l[i])]

\* ------------------------------------------------------------------ state
VARIABLES
    guilds,                   \* table guilds: a sequence of rows
    guild_storages,           \* table guild_storages
    subscriptions,            \* table subscriptions
    guilds_subscriptions,     \* table guilds_subscriptions
    payments,                 \* table payments
    subscriptions_payments,   \* table subscriptions_payments
    guild_alerts,             \* table guild_alerts
    guild_alerts_id_seq,      \* the last id the guild_alerts sequence gave out
    guild_plugins,            \* table guild_plugins
    guild_blacklisted_users,  \* table guild_blacklisted_users
    members,                  \* table members
    invited_member_events,    \* table invited_member_events
    guildHash,       \* cache: the hash guild_<guildID>, field -> text
    memberHash,      \* cache: the hash member_<userID>_<guildID>_<storageID>
    strings,         \* cache: the string keys, <<>> when absent, <<list>> when set
    pc,              \* where each caller's handler is
    call,            \* the running handler's arguments and locals
    result,          \* what the caller's last handler answered
    redisQueue,      \* cache commands issued and not executed yet, oldest first
    now,             \* the wall clock
    calls            \* handler calls the callers still make; -1: any number

vars == <<guilds, guild_storages, subscriptions, guilds_subscriptions, payments,
          subscriptions_payments, guild_alerts,
          guild_alerts_id_seq, guild_plugins, guild_blacklisted_users, members,
          invited_member_events, guildHash, memberHash, strings, pc, call, result, redisQueue, now, calls>>

\* The tables of the cached collections.
subscriptionTables == <<subscriptions, guilds_subscriptions>>
alertTables == <<guild_alerts, guild_alerts_id_seq>>
collectionTables == <<subscriptionTables, alertTables, guild_plugins, guild_blacklisted_users>>
\* The two stores.
\* The payments of the subscriptions.
paymentTables == <<payments, subscriptions_payments>>
postgres == <<guilds, guild_storages, collectionTables, paymentTables, members,
              invited_member_events>>
redis == <<guildHash, memberHash, strings>>

NoCall == [op |-> "none"]
NoResult == [op |-> "none", status |-> "none"]

\* ---------------------------------------------------------- RedisHandler
\* ioredis writes null and undefined arguments as the empty string and
\* numbers as their decimal text.
toArg(v) ==
    IF v \in {NULL, UNDEFINED} THEN ""
    ELSE IF v \in Numbers THEN NumberToString(v)
    ELSE IF v = "#true" THEN "true"
    ELSE IF v = "#false" THEN "false"
    ELSE v

\* A property of an object, or a field of hgetall's answer: undefined when
\* it is missing.
Field(h, f) == IF f \in DOMAIN h THEN h[f] ELSE UNDEFINED

\* setHash(key, data): hmset, or hset when data has one field.
setHash(h, data) ==
    [f \in (DOMAIN h) \cup (DOMAIN data) |->
        IF f \in DOMAIN data THEN toArg(data[f]) ELSE h[f]]

EmptyHash == [f \in {} |-> ""]

\* incrHashBy(key, field, num): hincrby counts a missing field as 0.
incrHashBy(h, field, num) ==
    [f \in (DOMAIN h) \cup {field} |->
        IF f = field
        THEN NumberToString(Num(ToInt(parseInt(IF f \in DOMAIN h THEN h[f] ELSE "0"))
                                + ToInt(num)))
        ELSE h[f]]

\* The users, and the storage ids a key can name.
MemberUsers == {"u1", "u2", "u3"}
StorageNames == {"s0"} \cup {IDNames[i] : i \in DOMAIN IDNames}
\* `member_${userID}_${guildID}_${storageID}`
MemberKey(u, g, s) == <<u, g, s>>
MemberKeys == MemberUsers \X Guilds \X StorageNames

\* The string keys: `guild_subscriptions_${guildID}` and the like.
SubscriptionsKey(g) == <<"guild_subscriptions", g>>
AlertsKey(g) == <<"guild_alerts", g>>
PluginsKey(g) == <<"guild_plugins", g>>
BlacklistedKey(g) == <<"guild_blacklisted", g>>
\* `member_${userID}_${guildID}_events`
EventsKey(u, g) == <<"member_events", u, g>>
\* `guild_leaderboard_${guildID}_${storageID}`
LeaderboardKey(g, s) == <<"guild_leaderboard", g, s>>
StringKeys ==
    ({"guild_subscriptions", "guild_alerts", "guild_plugins", "guild_blacklisted"} \X Guilds)
    \cup ({"guild_leaderboard"} \X Guilds \X StorageNames)
    \cup ({"member_events"} \X MemberUsers \X Guilds)

\* setString(key, JSON.stringify(list)) and delete(key) on the string keys.
setString(s, key, list) == [s EXCEPT ![key] = <<list>>]
delete(s, key) == [s EXCEPT ![key] = <<>>]
\* client.expire(key, seconds): a key that is there gets a time to live,
\* <<list, seconds>>; set, above, takes the time to live away.
expire(s, key, seconds) ==
    IF s[key] = <<>> THEN s ELSE [s EXCEPT ![key] = <<@[1], seconds>>]

\* The commands the handlers put in the queue.  chained: the handler has a
\* continuation on the command's answer.
HashCommand(p, chained, g, data) ==
    [owner |-> p, chained |-> chained, cmd |-> "setHash", key |-> g, data |-> data]
SetCommand(p, key, list) ==
    [owner |-> p, chained |-> FALSE, cmd |-> "set", key |-> key, data |-> list]
GetCommand(p, key) ==
    [owner |-> p, chained |-> TRUE, cmd |-> "get", key |-> key]
DeleteCommand(p, key) ==
    [owner |-> p, chained |-> TRUE, cmd |-> "del", key |-> key]
\* The commands on a member's hash and on the leaderboard key.
MemberCommand(p, chained, key, data) ==
    [owner |-> p, chained |-> chained, cmd |-> "setMember", key |-> key, data |-> data]
IncrCommand(p, key, field, num) ==
    [owner |-> p, chained |-> TRUE, cmd |-> "incr", key |-> key, field |-> field,
     data |-> num]
UnawaitedCommand(p, cmd, key, data) ==
    [owner |-> p, chained |-> FALSE, cmd |-> cmd, key |-> key, data |-> data]

\* The cache executes command c.
Execute(c) ==
    /\ guildHash' = IF c.cmd = "setHash"
                    THEN [guildHash EXCEPT ![c.key] = setHash(@, c.data)]
                    ELSE guildHash
    /\ memberHash' =
          CASE c.cmd = "setMember" -> [memberHash EXCEPT ![c.key] = setHash(@, c.data)]
            [] c.cmd = "incr" ->
                   [memberHash EXCEPT ![c.key] = incrHashBy(@, c.field, c.data)]
            [] OTHER -> memberHash
    /\ strings' = CASE c.cmd = "set" -> setString(strings, c.key, c.data)
                    [] c.cmd = "del" -> delete(strings, c.key)
                    [] c.cmd = "expire" -> expire(strings, c.key, c.data)
                    [] OTHER -> strings

\* A command issued now is executed after those already issued: a step that
\* issues a command and executes it is taken once the queue is empty.
RedisIdle == redisQueue = <<>>

\* The handler issues a command.
Issue(cmd) == redisQueue' = Append(redisQueue, cmd)

\* The oldest command is one that caller p's handler has a continuation on.
Chained(p) ==
    /\ redisQueue # <<>>
    /\ Head(redisQueue).owner = p
    /\ Head(redisQueue).chained

\* Whether caller p has cache commands queued.
NothingPending(p) == \A i \in DOMAIN redisQueue : redisQueue[i].owner # p

\* A caller calls its next handler when everything its previous handler
\* issued has been worked off; what is still pending of one caller races
\* with the handlers of the other callers.
Idle(p) == pc[p] = "idle" /\ NothingPending(p) /\ calls # 0

\* The caller makes a call.
Called == calls' = IF calls > 0 THEN calls - 1 ELSE calls

\* ------------------------------------------------------- PostgresHandler
\* A column of a result row; a column the statement did not return is
\* undefined.
Col(row, c) == IF c \in DOMAIN row THEN row[c] ELSE UNDEFINED

\* node-postgres sends an undefined parameter as NULL.
pgParam(v) == IF v = UNDEFINED THEN NULL ELSE v

GuildRows(g) == SelectSeq(guilds, LAMBDA r : r.guild_id = g)
StorageRows(g) == SelectSeq(guild_storages, LAMBDA r : r.guild_id = g)

\* The guild's current-storage pointer.
Pointer(g) == GuildRows(g)[1].guild_storage_id

\* INSERT INTO guilds ... VALUES ($1, 'en-US', '+', null, null, $2)
InsertGuild(g, sid) ==
    Append(guilds, [guild_id |-> g, guild_language |-> "en-US",
                    guild_prefix |-> "+", guild_cmd_channel |-> NULL,
                    guild_fake_threshold |-> NULL, guild_storage_id |-> sid])

\* A variant of the INSERT that keeps one row per guild.
InsertStorageReplacing(g, sid, at) ==
    Append(SelectSeq(guild_storages, LAMBDA r : r.guild_id # g),
           [guild_id |-> g, storage_id |-> sid, created_at |-> at])

\* INSERT INTO guild_storages (guild_id, storage_id, created_at)
InsertStorage(g, sid, at) ==
    Append(guild_storages, [guild_id |-> g, storage_id |-> sid, created_at |-> at])

\* The columns of table guilds.
GuildsColumns == {"guild_id", "guild_language", "guild_prefix", "guild_cmd_channel",
                  "guild_fake_threshold", "guild_storage_id"}

\* UPDATE guilds SET <column> = $1 WHERE guild_id = $2
UpdateGuilds(g, column, v) ==
    [i \in DOMAIN guilds |->
        IF guilds[i].guild_id = g
        THEN [guilds[i] EXCEPT ![column] = pgParam(v)]
        ELSE guilds[i]]

\* ------------------------------------------------------------ identifiers
IssuedIDs ==
    {guild_storages[i].storage_id : i \in DOMAIN guild_storages}
        \cup {guilds[i].guild_storage_id : i \in DOMAIN guilds}

\* generateStorageID(): twelve random base-36 digits.  With 36^12 values a
\* repeat is not a case of any claim, and identifiers are only ever compared
\* for equality, so the draw is represented by the first name not issued yet.
generateStorageID ==
    {IDNames[i] : i \in {j \in 1..MaxStorages :
                            /\ IDNames[j] \notin IssuedIDs
                            /\ \A k \in 1..(j-1) : IDNames[k] \in IssuedIDs}}

\* ------------------------------------------------------------- settling
Goto(p, label, c) ==
    /\ pc' = [pc EXCEPT ![p] = label]
    /\ call' = [call EXCEPT ![p] = c]
    /\ UNCHANGED <<result, calls>>

Resolve(p, v) ==
    /\ pc' = [pc EXCEPT ![p] = "idle"]
    /\ result' = [result EXCEPT ![p] =
            [op |-> call[p].op, args |-> call[p].args, status |-> "resolved", value |-> v]]
    /\ call' = [call EXCEPT ![p] = NoCall]
    /\ UNCHANGED calls

Reject(p, e) ==
    /\ pc' = [pc EXCEPT ![p] = "idle"]
    /\ result' = [result EXCEPT ![p] =
            [op |-> call[p].op, args |-> call[p].args, status |-> "rejected", value |-> e]]
    /\ call' = [call EXCEPT ![p] = NoCall]
    /\ UNCHANGED calls

\* A handler that settles in the step that starts it.
RejectAtCall(p, op, args, e) ==
    /\ pc' = [pc EXCEPT ![p] = "idle"]
    /\ result' = [result EXCEPT ![p] =
            [op |-> op, args |-> args, status |-> "rejected", value |-> e]]
    /\ UNCHANGED call
    /\ Called

ResolveAtCall(p, op, args, v) ==
    /\ pc' = [pc EXCEPT ![p] = "idle"]
    /\ result' = [result EXCEPT ![p] =
            [op |-> op, args |-> args, status |-> "resolved", value |-> v]]
    /\ UNCHANGED call
    /\ Called

Begin(p, label, c) ==
    /\ pc' = [pc EXCEPT ![p] = label]
    /\ call' = [call EXCEPT ![p] = c]
    /\ result' = [result EXCEPT ![p] = NoResult]
    /\ Called

\* ------------------------------------------------------------ Promise.all
\* await Promise.all([redisUpdatePromise, postgresUpdatePromise]): call[p].r
\* and call[p].q say how far the two promises are.  The handler rejects with
\* the first failure and resolves when both have succeeded; its steps end
\* when both promises are settled.  c is call[p] after the step, and error
\* the failure of the step, or undefined.
Done(h) == h \in {"ok", "failed"}

PromiseAll(p, c, error) ==
    LET rejects == ~call[p].settled /\ error # UNDEFINED
        finished == Done(c.r) /\ Done(c.q)
    IN /\ result' = [result EXCEPT ![p] =
              IF rejects
              THEN [op |-> c.op, args |-> c.args, status |-> "rejected", value |-> error]
              ELSE IF ~call[p].settled /\ finished
                   THEN [op |-> c.op, args |-> c.args, status |-> "resolved",
                         value |-> UNDEFINED]
                   ELSE @]
       /\ pc' = [pc EXCEPT ![p] = IF finished THEN "idle" ELSE @]
       /\ call' = [call EXCEPT ![p] =
              IF finished THEN NoCall
              ELSE [c EXCEPT !.settled = call[p].settled \/ rejects]]
       /\ UNCHANGED calls

\* The locals of a handler that awaits Promise.all.
Both(op, args, r) ==
    [op |-> op, args |-> args, r |-> r, q |-> "pending", settled |-> FALSE, data |-> <<>>]

\* The cache promise when it is one command (setHash, delete), issued when
\* the handler was called.
CommandHalf(p) ==
    /\ call[p].r = "command"
    /\ Chained(p)
    /\ redisQueue' = Tail(redisQueue)
    /\ \/ /\ Execute(Head(redisQueue))
          /\ PromiseAll(p, [call[p] EXCEPT !.r = "ok"], UNDEFINED)
       \/ /\ UNCHANGED redis
          /\ PromiseAll(p, [call[p] EXCEPT !.r = "failed"], "redis_error")

\* The cache promise when it is getString(key, true).then(callback): the
\* read, issued when the handler was called, and the callback when the key
\* is absent, which returns (onMiss "ok") or throws (onMiss the error).
GetHalf(p, key, onMiss) ==
    /\ call[p].r = "get"
    /\ Chained(p)
    /\ redisQueue' = Tail(redisQueue)
    /\ UNCHANGED redis
    /\ \/ PromiseAll(p, [call[p] EXCEPT !.r = "failed"], "redis_error")
       \/ IF strings[key] = <<>>
          THEN IF onMiss = "ok"
               THEN PromiseAll(p, [call[p] EXCEPT !.r = "ok"], UNDEFINED)
               ELSE PromiseAll(p, [call[p] EXCEPT !.r = "failed"], onMiss)
          ELSE PromiseAll(p, [call[p] EXCEPT !.r = "then", !.data = strings[key][1]],
                          UNDEFINED)

\* The callback when the key was there: setString(key, JSON.stringify(list)).
SetHalf(p, key, list) ==
    /\ call[p].r = "then"
    /\ RedisIdle
    /\ UNCHANGED <<guildHash, memberHash, redisQueue>>
    /\ \/ /\ strings' = setString(strings, key, list)
          /\ PromiseAll(p, [call[p] EXCEPT !.r = "ok"], UNDEFINED)
       \/ /\ UNCHANGED strings
          /\ PromiseAll(p, [call[p] EXCEPT !.r = "failed"], "redis_error")

\* The store promise when it is one UPDATE guilds ... WHERE guild_id = g: the
\* statement fails when the table has no such column.
GuildsHalf(p, g, column, v) ==
    /\ call[p].q = "pending"
    /\ \/ /\ column \in GuildsColumns
          /\ guilds' = UpdateGuilds(g, column, v)
          /\ PromiseAll(p, [call[p] EXCEPT !.q = "ok"], UNDEFINED)
       \/ /\ UNCHANGED guilds
          /\ PromiseAll(p, [call[p] EXCEPT !.q = "failed"], "postgres_error")

\* ------------------------------------------------------ fetchGuildSettings
\* What a cache hit returns.
CachedGuildSettings(h) ==
    [guildID |-> Field(h, "guildID"),
     storageID |-> Field(h, "storageID"),
     language |-> Field(h, "language"),
     prefix |-> Field(h, "prefix"),
     cmdChannel |-> IF Truthy(Field(h, "cmdChannel")) THEN Field(h, "cmdChannel") ELSE NULL,
     fakeThreshold |-> IF Truthy(Field(h, "fakeThreshold"))
                       THEN parseInt(Field(h, "fakeThreshold")) ELSE NULL]

\* formattedGuildSettings, built from rows[0].
FormatGuildSettings(row) ==
    [guildID |-> Col(row, "guild_id"),
     storageID |-> Col(row, "guild_storage_id"),
     language |-> Col(row, "guild_language"),
     prefix |-> Col(row, "guild_prefix"),
     cmdChannel |-> Col(row, "guild_cmd_channel"),
     fakeThreshold |-> Col(row, "guild_fake_threshold")]

\* await this.redis.getHashFields(`guild_${guildID}`), and the hit.
fetchGuildSettings(p, g) ==
    /\ Idle(p)
    /\ RedisIdle
    /\ LET args == [guildID |-> g]
           c == [op |-> "fetchGuildSettings", args |-> args, rows |-> <<>>, created |-> FALSE]
       IN \/ RejectAtCall(p, "fetchGuildSettings", args, "redis_error")
          \/ IF Truthy(Field(guildHash[g], "guildID"))
             THEN ResolveAtCall(p, "fetchGuildSettings", args, CachedGuildSettings(guildHash[g]))
             ELSE Begin(p, "fgs_select", c)
    /\ UNCHANGED <<postgres, redis, redisQueue, now>>

\* A variant of the SELECT step that takes every guild for a new one.
fetchGuildSettings_selectNone(p) ==
    /\ pc[p] = "fgs_select"
    /\ \/ Reject(p, "postgres_error")
       \/ Goto(p, "fgs_insertGuild", call[p])
    /\ UNCHANGED <<postgres, redis, redisQueue, now>>

\* SELECT * FROM guilds WHERE guild_id = $1
fetchGuildSettings_select(p) ==
    /\ pc[p] = "fgs_select"
    /\ \/ Reject(p, "postgres_error")
       \/ LET rows == GuildRows(call[p].args.guildID)
          IN Goto(p, IF rows = <<>> THEN "fgs_insertGuild" ELSE "fgs_format",
                  [call[p] EXCEPT !.rows = rows])
    /\ UNCHANGED <<postgres, redis, redisQueue, now>>

\* INSERT INTO guilds ... RETURNING guild_storage_id
fetchGuildSettings_insertGuild(p) ==
    /\ pc[p] = "fgs_insertGuild"
    /\ \/ /\ Reject(p, "postgres_error")
          /\ UNCHANGED guilds
       \/ \E sid \in generateStorageID :
            /\ guilds' = InsertGuild(call[p].args.guildID, sid)
            /\ Goto(p, "fgs_insertStorage",
                    [call[p] EXCEPT !.rows = <<[guild_storage_id |-> sid]>>,
                                    !.created = TRUE])
    /\ UNCHANGED <<paymentTables, members, invited_member_events, guild_storages, collectionTables, redis, redisQueue, now>>

\* INSERT INTO guild_storages, with rows[0].guild_storage_id and the date
fetchGuildSettings_insertStorage(p) ==
    /\ pc[p] = "fgs_insertStorage"
    /\ \/ /\ Reject(p, "postgres_error")
          /\ UNCHANGED guild_storages
       \/ /\ guild_storages' = InsertStorage(call[p].args.guildID,
                                   call[p].rows[1].guild_storage_id,
                                   toISOString(NewDate(now)))
          /\ Goto(p, "fgs_format", call[p])
    /\ UNCHANGED <<paymentTables, members, invited_member_events, guilds, collectionTables, redis, redisQueue, now>>

\* formattedGuildSettings, the unawaited setHash, and the return
fetchGuildSettings_format(p) ==
    /\ pc[p] = "fgs_format"
    /\ LET formatted == FormatGuildSettings(call[p].rows[1])
       IN /\ Issue(HashCommand(p, FALSE, call[p].args.guildID, formatted))
          /\ Resolve(p, formatted)
    /\ UNCHANGED <<postgres, redis, now>>

\* ------------------------------------------------------ updateGuildSetting
GuildSettingNames == {"language", "prefix", "cmd_channel", "fake_threshold", "storage_id"}

\* `guild_${snakeCase(settingName)}`
GuildColumn(settingName) == "guild_" \o snakeCase(settingName)

\* A variant of the allow-list that holds every name.
AnyGuildSetting(settingName) == TRUE

KnownGuildSetting(settingName) == snakeCase(settingName) \in GuildSettingNames

\* The settings callers try: keys of GuildSettings with a new value each.
SettingInputs == {<<"prefix", "!">>, <<"guildID", "G1">>}

updateGuildSetting(p, g, settingName, newSettingValue) ==
    /\ Idle(p)
    /\ LET args == [guildID |-> g, settingName |-> settingName,
                    newSettingValue |-> newSettingValue]
       IN IF ~KnownGuildSetting(settingName)
          THEN /\ RejectAtCall(p, "updateGuildSetting", args, "unknown_guild_setting")
               /\ UNCHANGED redisQueue
          ELSE /\ Begin(p, "ugs_both", Both("updateGuildSetting", args, "command"))
               /\ Issue(HashCommand(p, TRUE, g, [f \in {settingName} |-> newSettingValue]))
    /\ UNCHANGED <<postgres, redis, now>>

updateGuildSetting_redis(p) ==
    /\ pc[p] = "ugs_both"
    /\ CommandHalf(p)
    /\ UNCHANGED <<postgres, now>>

updateGuildSetting_postgres(p) ==
    /\ pc[p] = "ugs_both"
    /\ LET a == call[p].args
       IN GuildsHalf(p, a.guildID, GuildColumn(a.settingName), a.newSettingValue)
    /\ UNCHANGED <<paymentTables, members, invited_member_events, guild_storages, collectionTables, redis, redisQueue, now>>

\* ------------------------------------------------------ removeGuildInvites
\* UPDATE guilds SET guild_storage_id = $1 ... RETURNING guild_storage_id,
\* and rows[0].guild_storage_id (a TypeError when no row was updated)
removeGuildInvites(p, g) ==
    /\ Idle(p)
    /\ LET args == [guildID |-> g]
       IN \/ /\ RejectAtCall(p, "removeGuildInvites", args, "postgres_error")
             /\ UNCHANGED guilds
          \/ \E sid \in generateStorageID :
                IF GuildRows(g) = <<>>
                THEN /\ RejectAtCall(p, "removeGuildInvites", args, "TypeError")
                     /\ UNCHANGED guilds
                ELSE /\ guilds' = UpdateGuilds(g, "guild_storage_id", sid)
                     /\ Begin(p, "rgi_setHash", [op |-> "removeGuildInvites", args |-> args,
                              newStorageID |-> UpdateGuilds(g, "guild_storage_id", sid)
                                                 [CHOOSE i \in DOMAIN guilds :
                                                    /\ guilds[i].guild_id = g
                                                    /\ \A j \in 1..(i-1) : guilds[j].guild_id # g]
                                                 .guild_storage_id])
    /\ UNCHANGED <<paymentTables, members, invited_member_events, guild_storages, collectionTables, redis, redisQueue, now>>

\* A variant of the cache write that also writes the guild's id.
removeGuildInvites_setHashWithGuild(p) ==
    /\ pc[p] = "rgi_setHash"
    /\ RedisIdle
    /\ \/ /\ Reject(p, "redis_error")
          /\ UNCHANGED guildHash
       \/ /\ guildHash' = [guildHash EXCEPT ![call[p].args.guildID] =
                              setHash(@, [guildID |-> call[p].args.guildID,
                                          storageID |-> call[p].newStorageID])]
          /\ Goto(p, "rgi_insert", call[p])
    /\ UNCHANGED <<postgres, memberHash, strings, redisQueue, now>>

\* await this.redis.setHash(`guild_${guildID}`, { storageID: newStorageID })
removeGuildInvites_setHash(p) ==
    /\ pc[p] = "rgi_setHash"
    /\ RedisIdle
    /\ \/ /\ Reject(p, "redis_error")
          /\ UNCHANGED guildHash
       \/ /\ guildHash' = [guildHash EXCEPT ![call[p].args.guildID] =
                              setHash(@, [storageID |-> call[p].newStorageID])]
          /\ Goto(p, "rgi_insert", call[p])
    /\ UNCHANGED <<postgres, memberHash, strings, redisQueue, now>>

\* A variant of the INSERT step that also moves the guild's members to the
\* new storage.
removeGuildInvites_insertMoveMembers(p) ==
    /\ pc[p] = "rgi_insert"
    /\ \/ /\ Reject(p, "postgres_error")
          /\ UNCHANGED <<paymentTables, guild_storages, members>>
       \/ /\ guild_storages' = InsertStorage(call[p].args.guildID, call[p].newStorageID,
                                             toISOString(NewDate(now)))
          /\ members' = [i \in DOMAIN members |->
                            IF members[i].guild_id = call[p].args.guildID
                            THEN [members[i] EXCEPT !.storage_id = call[p].newStorageID]
                            ELSE members[i]]
          /\ Resolve(p, call[p].newStorageID)
    /\ UNCHANGED <<paymentTables, invited_member_events, guilds, collectionTables, redis, redisQueue, now>>

\* A variant of the INSERT step that takes a failed INSERT for done.
removeGuildInvites_insertIgnoreError(p) ==
    /\ pc[p] = "rgi_insert"
    /\ \/ /\ Resolve(p, call[p].newStorageID)
          /\ UNCHANGED guild_storages
       \/ /\ guild_storages' = InsertStorage(call[p].args.guildID, call[p].newStorageID,
                                             toISOString(NewDate(now)))
          /\ Resolve(p, call[p].newStorageID)
    /\ UNCHANGED <<paymentTables, members, invited_member_events, guilds, collectionTables, redis, redisQueue, now>>

\* INSERT INTO guild_storages, and return newStorageID
removeGuildInvites_insert(p) ==
    /\ pc[p] = "rgi_insert"
    /\ \/ /\ Reject(p, "postgres_error")
          /\ UNCHANGED guild_storages
       \/ /\ guild_storages' = InsertStorage(call[p].args.guildID, call[p].newStorageID,
                                             toISOString(NewDate(now)))
          /\ Resolve(p, call[p].newStorageID)
    /\ UNCHANGED <<paymentTables, members, invited_member_events, guilds, collectionTables, redis, redisQueue, now>>

\* ------------------------------------------------------ fetchGuildStorages
fetchGuildStorages(g) ==
    LET rows == StorageRows(g)
    IN [i \in DOMAIN rows |->
          [guildID |-> rows[i].guild_id, storageID |-> rows[i].storage_id,
           createdAt |-> getTime(rows[i].created_at)]]

\* A variant of the choice that sorts the other way round.
OldestOther(storages, currentStorageID) ==
    LET others == {i \in DOMAIN storages : storages[i].storageID # currentStorageID}
        first == {i \in others : \A j \in others : storages[i].createdAt <= storages[j].createdAt}
    IN IF others = {} THEN {UNDEFINED} ELSE {storages[i].storageID : i \in first}

\* .filter(storageID !== currentStorageID).sort(b.createdAt - a.createdAt)[0]?.storageID
\* The sort is stable and the SELECT has no ORDER BY, so among the storages
\* with the latest createdAt any one can come first.
LatestOther(storages, currentStorageID) ==
    LET others == {i \in DOMAIN storages : storages[i].storageID # currentStorageID}
        first == {i \in others : \A j \in others : storages[j].createdAt <= storages[i].createdAt}
    IN IF others = {} THEN {UNDEFINED} ELSE {storages[i].storageID : i \in first}

\* ----------------------------------------------------- restoreGuildStorage
restoreGuildStorage(p, g, storageID) ==
    /\ Idle(p)
    /\ Begin(p, "rgs_both", Both("restoreGuildStorage",
                                 [guildID |-> g, storageID |-> storageID], "command"))
    /\ Issue(HashCommand(p, TRUE, g, [storageID |-> storageID]))
    /\ UNCHANGED <<postgres, redis, now>>

\* restoreGuildStorage's parameter, also when restoreGuildInvites calls it.
RestoredStorageID(c) ==
    IF c.op = "restoreGuildInvites" THEN c.latestStorageID ELSE c.args.storageID

restoreGuildStorage_redis(p) ==
    /\ pc[p] = "rgs_both"
    /\ CommandHalf(p)
    /\ UNCHANGED <<postgres, now>>

\* A variant of the store promise that also opens an epoch.
restoreGuildStorage_postgresNewEpoch(p) ==
    /\ pc[p] = "rgs_both"
    /\ GuildsHalf(p, call[p].args.guildID, "guild_storage_id", RestoredStorageID(call[p]))
    /\ guild_storages' = InsertStorage(call[p].args.guildID, RestoredStorageID(call[p]),
                                       toISOString(NewDate(now)))
    /\ UNCHANGED <<paymentTables, members, invited_member_events, collectionTables, redis, redisQueue, now>>

restoreGuildStorage_postgres(p) ==
    /\ pc[p] = "rgs_both"
    /\ GuildsHalf(p, call[p].args.guildID, "guild_storage_id", RestoredStorageID(call[p]))
    /\ UNCHANGED <<paymentTables, members, invited_member_events, guild_storages, collectionTables, redis, redisQueue, now>>

\* ----------------------------------------------------- restoreGuildInvites
\* await this.fetchGuildStorages(guildID), and latestStorageID
restoreGuildInvites(p, g, currentStorageID) ==
    /\ Idle(p)
    /\ LET args == [guildID |-> g, currentStorageID |-> currentStorageID]
       IN \/ RejectAtCall(p, "restoreGuildInvites", args, "postgres_error")
          \/ \E latestStorageID \in LatestOther(fetchGuildStorages(g), currentStorageID) :
                Begin(p, "rgiv_restore",
                      Both("restoreGuildInvites", args, "command")
                          @@ [latestStorageID |-> latestStorageID])
    /\ UNCHANGED <<postgres, redis, redisQueue, now>>

\* await this.restoreGuildStorage({ guildID, storageID: latestStorageID })
restoreGuildInvites_restore(p) ==
    /\ pc[p] = "rgiv_restore"
    /\ Goto(p, "rgs_both", call[p])
    /\ Issue(HashCommand(p, TRUE, call[p].args.guildID,
                         [storageID |-> call[p].latestStorageID]))
    /\ UNCHANGED <<postgres, redis, now>>

\* -------------------------------------------------- fetchGuildSubscriptions
\* SELECT s.* FROM subscriptions s INNER JOIN guilds_subscriptions ...
GuildSubscriptionRows(g) ==
    SelectSeq(subscriptions,
              LAMBDA s : \E i \in DOMAIN guilds_subscriptions :
                            /\ guilds_subscriptions[i].sub_id = s.id
                            /\ guilds_subscriptions[i].guild_id = g)

FormatSubscription(row) ==
    [id |-> row.id, expiresAt |-> row.expires_at, createdAt |-> row.created_at,
     subLabel |-> row.sub_label, guildsCount |-> row.guilds_count,
     patreonUserID |-> row.patreon_user_id, cancelled |-> row.cancelled,
     subInvalidated |-> row.sub_invalidated]

FormatSubscriptions(rows) == [i \in DOMAIN rows |-> FormatSubscription(rows[i])]

\* await this.redis.getString(`guild_subscriptions_${guildID}`, true), and the hit
fetchGuildSubscriptions(p, g) ==
    /\ Idle(p)
    /\ RedisIdle
    /\ LET args == [guildID |-> g]
       IN \/ RejectAtCall(p, "fetchGuildSubscriptions", args, "redis_error")
          \/ IF strings[SubscriptionsKey(g)] # <<>>
             THEN ResolveAtCall(p, "fetchGuildSubscriptions", args,
                                strings[SubscriptionsKey(g)][1])
             ELSE Begin(p, "fsubs_select",
                        [op |-> "fetchGuildSubscriptions", args |-> args, rows |-> <<>>])
    /\ UNCHANGED <<postgres, redis, redisQueue, now>>

fetchGuildSubscriptions_select(p) ==
    /\ pc[p] = "fsubs_select"
    /\ \/ Reject(p, "postgres_error")
       \/ Goto(p, "fsubs_format",
               [call[p] EXCEPT !.rows = GuildSubscriptionRows(call[p].args.guildID)])
    /\ UNCHANGED <<postgres, redis, redisQueue, now>>

\* formattedGuildSubscriptions, the unawaited setString, and the return
fetchGuildSubscriptions_format(p) ==
    /\ pc[p] = "fsubs_format"
    /\ LET formatted == FormatSubscriptions(call[p].rows)
       IN /\ Issue(SetCommand(p, SubscriptionsKey(call[p].args.guildID), JSONList(formatted)))
          /\ Resolve(p, formatted)
    /\ UNCHANGED <<postgres, redis, now>>

\* -------------------------------------------------- createGuildSubscription
SubscriptionIDNames == <<"sub1", "sub2", "sub3", "sub4", "sub5", "sub6">>

\* What a column that the INSERT does not name gets: the column's default,
\* which is a value of the column's type or NULL.
ColumnDefaults == {"#false", NULL}

\* The subscriptions callers create.
SubscriptionInputs == {[subLabel |-> "Premium", patreonUserID |-> "P1"]}

\* A destructured parameter with a default value.
Default(o, f, d) == IF Field(o, f) = UNDEFINED THEN d ELSE o[f]

\* INSERT INTO subscriptions ... RETURNING id
createGuildSubscription(p, g, subscription) ==
    /\ Idle(p)
    /\ LET args == [guildID |-> g, subscription |-> subscription]
           expiresAt == Default(subscription, "expiresAt", NewDate(now))
           createdAt == Default(subscription, "createdAt", NewDate(now))
           subLabel == Field(subscription, "subLabel")
           guildsCount == Default(subscription, "guildsCount", "#1")
           patreonUserID == Field(subscription, "patreonUserID")
           subID == SubscriptionIDNames[Len(subscriptions) + 1]
       IN \/ /\ RejectAtCall(p, "createGuildSubscription", args, "postgres_error")
             /\ UNCHANGED subscriptions
          \/ \E d \in ColumnDefaults :
               /\ subscriptions' = Append(subscriptions,
                      [id |-> subID,
                       expires_at |-> toISOString(expiresAt),
                       created_at |-> toISOString(createdAt),
                       sub_label |-> pgParam(subLabel),
                       guilds_count |-> pgParam(guildsCount),
                       patreon_user_id |-> pgParam(patreonUserID),
                       cancelled |-> d, sub_invalidated |-> d])
               /\ Begin(p, "cgs_link",
                        [op |-> "createGuildSubscription", args |-> args,
                         subID |-> subID,
                         newSubscription |->
                             [expiresAt |-> expiresAt, createdAt |-> createdAt,
                              subLabel |-> subLabel, guildsCount |-> guildsCount,
                              patreonUserID |-> patreonUserID, id |-> subID],
                         guildSubscriptions |-> <<>>])
    /\ UNCHANGED <<paymentTables, members, invited_member_events, guilds, guild_storages, guilds_subscriptions, alertTables, guild_plugins,
                   guild_blacklisted_users, redis, redisQueue, now>>

\* INSERT INTO guilds_subscriptions (sub_id, guild_id)
createGuildSubscription_link(p) ==
    /\ pc[p] = "cgs_link"
    /\ \/ /\ Reject(p, "postgres_error")
          /\ UNCHANGED guilds_subscriptions
       \/ /\ guilds_subscriptions' = Append(guilds_subscriptions,
                 [sub_id |-> call[p].subID, guild_id |-> call[p].args.guildID])
          /\ Goto(p, "cgs_getString", call[p])
    /\ UNCHANGED <<paymentTables, members, invited_member_events, guilds, guild_storages, subscriptions, alertTables, guild_plugins,
                   guild_blacklisted_users, redis, redisQueue, now>>

\* await this.redis.getString(`guild_subscriptions_${guildID}`, true), and
\* [...guildSubscriptions, newSubscription]: a TypeError when the key is absent
createGuildSubscription_getString(p) ==
    /\ pc[p] = "cgs_getString"
    /\ RedisIdle
    /\ LET key == SubscriptionsKey(call[p].args.guildID)
       IN \/ Reject(p, "redis_error")
          \/ IF strings[key] = <<>>
             THEN Reject(p, "TypeError")
             ELSE Goto(p, "cgs_setString",
                       [call[p] EXCEPT !.guildSubscriptions = strings[key][1]])
    /\ UNCHANGED <<postgres, redis, redisQueue, now>>

\* await this.redis.setString(..., JSON.stringify(newGuildSubscriptions))
createGuildSubscription_setString(p) ==
    /\ pc[p] = "cgs_setString"
    /\ RedisIdle
    /\ LET key == SubscriptionsKey(call[p].args.guildID)
           newGuildSubscriptions ==
               Append(call[p].guildSubscriptions, call[p].newSubscription)
       IN \/ /\ Reject(p, "redis_error")
             /\ UNCHANGED strings
          \/ /\ strings' = setString(strings, key, JSONList(newGuildSubscriptions))
             /\ Resolve(p, call[p].newSubscription)
    /\ UNCHANGED <<postgres, guildHash, memberHash, redisQueue, now>>

\* -------------------------------------------------- updateGuildSubscription
SubscriptionSettingNames ==
    {"expires_at", "created_at", "sub_label", "guilds_count", "patreon_user_id",
     "cancelled", "sub_invalidated"}

KnownSubscriptionSetting(settingName) == snakeCase(settingName) \in SubscriptionSettingNames

\* The settings callers try: keys of GuildSubscription with a new value each.
SubscriptionSettingInputs == {<<"subLabel", "Trial Version">>, <<"id", "sub6">>}

\* { ...object, ...{ [name]: value } }, where object can be undefined
Patch(object, name, value) ==
    IF object = <<>> THEN [f \in {name} |-> value]
    ELSE [f \in (DOMAIN object[1]) \cup {name} |-> IF f = name THEN value ELSE object[1][f]]

\* list.find((sub) => sub.id === subID), as <<>> or <<element>>
Find(list, subID) ==
    LET found == SelectSeq(list, LAMBDA sub : Field(sub, "id") = subID)
    IN IF found = <<>> THEN <<>> ELSE <<found[1]>>

updateGuildSubscription(p, subID, g, settingName, newSettingValue) ==
    /\ Idle(p)
    /\ LET args == [subID |-> subID, guildID |-> g, settingName |-> settingName,
                    newSettingValue |-> newSettingValue]
       IN IF ~KnownSubscriptionSetting(settingName)
          THEN /\ RejectAtCall(p, "updateGuildSubscription", args, "unknown_guild_setting")
               /\ UNCHANGED redisQueue
          ELSE /\ Begin(p, "ugsub_both", Both("updateGuildSubscription", args, "get"))
               /\ Issue(GetCommand(p, SubscriptionsKey(g)))
    /\ UNCHANGED <<postgres, redis, now>>

updateGuildSubscription_getString(p) ==
    /\ pc[p] = "ugsub_both"
    /\ GetHalf(p, SubscriptionsKey(call[p].args.guildID), "ok")
    /\ UNCHANGED <<postgres, now>>

updateGuildSubscription_setString(p) ==
    /\ pc[p] = "ugsub_both"
    /\ LET a == call[p].args
           guildSubscriptions == call[p].data
           guildSubscription == Find(guildSubscriptions, a.subID)
           newSubscription == Patch(guildSubscription, a.settingName, a.newSettingValue)
           newGuildSubscriptions ==
               Append(SelectSeq(guildSubscriptions, LAMBDA sub : Field(sub, "id") # a.subID),
                      newSubscription)
       IN SetHalf(p, SubscriptionsKey(a.guildID), JSONList(newGuildSubscriptions))
    /\ UNCHANGED <<postgres, now>>

\* UPDATE subscriptions SET ${snakeCase(settingName)} = $1 WHERE id = $2
updateGuildSubscription_postgres(p) ==
    /\ pc[p] = "ugsub_both"
    /\ call[p].q = "pending"
    /\ LET a == call[p].args
       IN \/ /\ subscriptions' =
                   [i \in DOMAIN subscriptions |->
                       IF subscriptions[i].id = a.subID
                       THEN [subscriptions[i] EXCEPT ![snakeCase(a.settingName)] =
                                                        pgParam(a.newSettingValue)]
                       ELSE subscriptions[i]]
             /\ PromiseAll(p, [call[p] EXCEPT !.q = "ok"], UNDEFINED)
          \/ /\ UNCHANGED subscriptions
             /\ PromiseAll(p, [call[p] EXCEPT !.q = "failed"], "postgres_error")
    /\ UNCHANGED <<paymentTables, members, invited_member_events, guilds, guild_storages, guilds_subscriptions, alertTables, guild_plugins,
                   guild_blacklisted_users, redis, redisQueue, now>>

\* ------------------------------------------------ createSubscriptionPayment
\* The payments callers create: signups, cancellations, other payments, and
\* a payment without a type.
PaymentInputs ==
    {[type |-> "paypal_dash_signup_monthly"], [type |-> "paypal_dash_cancel"],
     [type |-> "email"], [amount |-> "#5"]}

\* formatPayment(paymentRow), with the columns the handlers here read.
formatPayment(paymentRow) ==
    [id |-> paymentRow.id, amount |-> paymentRow.amount, type |-> paymentRow.type]

\* INSERT INTO payments ... RETURNING *
createSubscriptionPayment(p, subID, payment) ==
    /\ Idle(p)
    /\ LET args == [subID |-> subID, payment |-> payment]
           row == [id |-> Num(Len(payments) + 1),
                   amount |-> pgParam(Field(payment, "amount")),
                   type |-> pgParam(Field(payment, "type"))]
       IN \/ /\ RejectAtCall(p, "createSubscriptionPayment", args, "postgres_error")
             /\ UNCHANGED payments
          \/ /\ payments' = Append(payments, row)
             /\ Begin(p, "csp_link",
                      [op |-> "createSubscriptionPayment", args |-> args, rows |-> <<row>>])
    /\ UNCHANGED <<guilds, guild_storages, collectionTables, subscriptions_payments, members,
                   invited_member_events, redis, redisQueue, now>>

\* INSERT INTO subscriptions_payments (sub_id, payment_id), and the return
createSubscriptionPayment_link(p) ==
    /\ pc[p] = "csp_link"
    /\ \/ /\ Reject(p, "postgres_error")
          /\ UNCHANGED subscriptions_payments
       \/ /\ subscriptions_payments' =
                Append(subscriptions_payments,
                       [sub_id |-> call[p].args.subID, payment_id |-> call[p].rows[1].id])
          /\ Resolve(p, formatPayment(call[p].rows[1]))
    /\ UNCHANGED <<guilds, guild_storages, collectionTables, payments, members,
                   invited_member_events, redis, redisQueue, now>>

\* ------------------------------------------------ fetchSubscriptionPayments
\* SELECT p.* FROM payments p INNER JOIN subscriptions_payments sp
\*   ON sp.payment_id = p.id WHERE sp.sub_id = $1, formatted.
fetchSubscriptionPayments(subID) ==
    LET rows == SelectSeq(payments,
                          LAMBDA r : \E i \in DOMAIN subscriptions_payments :
                                        /\ subscriptions_payments[i].payment_id = r.id
                                        /\ subscriptions_payments[i].sub_id = subID)
    IN [i \in DOMAIN rows |-> formatPayment(rows[i])]

\* --------------------------------------------- fetchGuildSubscriptionStatus
\* String.prototype.startsWith
startsWith(s, prefix) == Len(s) >= Len(prefix) /\ SubSeq(s, 1, Len(prefix)) = prefix

\* Array.prototype.flat over the payments of each subscription.
RECURSIVE flat(_)
flat(lists) == IF lists = <<>> THEN <<>> ELSE Head(lists) \o flat(Tail(lists))

\* payments.filter((p) => p.type.startsWith(prefix)).length
CountType(list, prefix) ==
    Cardinality({i \in DOMAIN list : startsWith(list[i].type, prefix)})

\* A variant of the status that counts a guild with as many cancellations
\* as signups as cancelled.
SubscriptionStatusNotStrict(list) ==
    [isPayPal |-> \E i \in DOMAIN list : startsWith(list[i].type, "paypal_dash_signup"),
     isCancelled |-> CountType(list, "paypal_dash_signup")
                        >= CountType(list, "paypal_dash_cancel")]

\* isPayPal and isCancelled of a list of payments.
SubscriptionStatus(list) ==
    [isPayPal |-> \E i \in DOMAIN list : startsWith(list[i].type, "paypal_dash_signup"),
     isCancelled |-> CountType(list, "paypal_dash_signup")
                        > CountType(list, "paypal_dash_cancel")]

\* await this.fetchGuildSubscriptions(guildID): the cache read and the hit
fetchGuildSubscriptionStatus(p, g) ==
    /\ Idle(p)
    /\ RedisIdle
    /\ LET args == [guildID |-> g]
       IN \/ RejectAtCall(p, "fetchGuildSubscriptionStatus", args, "redis_error")
          \/ IF strings[SubscriptionsKey(g)] # <<>>
             THEN Begin(p, "fgss_payments",
                        [op |-> "fetchGuildSubscriptionStatus", args |-> args, rows |-> <<>>,
                         guildSubscriptions |-> strings[SubscriptionsKey(g)][1]])
             ELSE Begin(p, "fgss_select",
                        [op |-> "fetchGuildSubscriptionStatus", args |-> args, rows |-> <<>>,
                         guildSubscriptions |-> <<>>])
    /\ UNCHANGED <<postgres, redis, redisQueue, now>>

\* fetchGuildSubscriptions: the SELECT
fetchGuildSubscriptionStatus_select(p) ==
    /\ pc[p] = "fgss_select"
    /\ \/ Reject(p, "postgres_error")
       \/ Goto(p, "fgss_format",
               [call[p] EXCEPT !.rows = GuildSubscriptionRows(call[p].args.guildID)])
    /\ UNCHANGED <<postgres, redis, redisQueue, now>>

\* fetchGuildSubscriptions: the unawaited setString, and the return
fetchGuildSubscriptionStatus_format(p) ==
    /\ pc[p] = "fgss_format"
    /\ LET formatted == FormatSubscriptions(call[p].rows)
       IN /\ Issue(SetCommand(p, SubscriptionsKey(call[p].args.guildID), JSONList(formatted)))
          /\ Goto(p, "fgss_payments", [call[p] EXCEPT !.guildSubscriptions = formatted])
    /\ UNCHANGED <<postgres, redis, now>>

\* Promise.all(guildSubscriptions.map((sub) => fetchSubscriptionPayments(sub.id))),
\* flat(), and the two tests; startsWith of a type that is null throws.
fetchGuildSubscriptionStatus_payments(p) ==
    /\ pc[p] = "fgss_payments"
    /\ LET subs == call[p].guildSubscriptions
           list == flat([i \in DOMAIN subs |-> fetchSubscriptionPayments(subs[i].id)])
       IN \/ subs # <<>> /\ Reject(p, "postgres_error")
          \/ IF \E i \in DOMAIN list : list[i].type = NULL
             THEN Reject(p, "TypeError")
             ELSE Resolve(p, SubscriptionStatus(list))
    /\ UNCHANGED <<postgres, redis, redisQueue, now>>

\* ---------------------------------------------------------- fetchGuildAlerts
GuildAlertRows(g) == SelectSeq(guild_alerts, LAMBDA r : r.guild_id = g)

FormatAlert(row) ==
    [id |-> row.id, guildID |-> row.guild_id, inviteCount |-> row.invite_count,
     channelID |-> row.channel_id, message |-> row.message, type |-> row.alert_type]

FormatAlerts(rows) == [i \in DOMAIN rows |-> FormatAlert(rows[i])]

\* What a cache hit returns.
CachedAlerts(redisData) ==
    [i \in DOMAIN redisData |->
        [id |-> parseInt(Field(redisData[i], "id")),
         guildID |-> Field(redisData[i], "guildID"),
         inviteCount |-> parseInt(Field(redisData[i], "inviteCount")),
         channelID |-> Field(redisData[i], "channelID"),
         message |-> Field(redisData[i], "message"),
         type |-> Field(redisData[i], "type")]]

fetchGuildAlerts(p, g) ==
    /\ Idle(p)
    /\ RedisIdle
    /\ LET args == [guildID |-> g]
       IN \/ RejectAtCall(p, "fetchGuildAlerts", args, "redis_error")
          \/ IF strings[AlertsKey(g)] # <<>>
             THEN ResolveAtCall(p, "fetchGuildAlerts", args,
                                CachedAlerts(strings[AlertsKey(g)][1]))
             ELSE Begin(p, "fga_select",
                        [op |-> "fetchGuildAlerts", args |-> args, rows |-> <<>>])
    /\ UNCHANGED <<postgres, redis, redisQueue, now>>

\* SELECT * FROM guild_alerts WHERE guild_id = $1
fetchGuildAlerts_select(p) ==
    /\ pc[p] = "fga_select"
    /\ \/ Reject(p, "postgres_error")
       \/ Goto(p, "fga_format", [call[p] EXCEPT !.rows = GuildAlertRows(call[p].args.guildID)])
    /\ UNCHANGED <<postgres, redis, redisQueue, now>>

\* formattedAlerts, the unawaited setString, and the return
fetchGuildAlerts_format(p) ==
    /\ pc[p] = "fga_format"
    /\ LET formattedAlerts == FormatAlerts(call[p].rows)
       IN /\ Issue(SetCommand(p, AlertsKey(call[p].args.guildID), JSONList(formattedAlerts)))
          /\ Resolve(p, formattedAlerts)
    /\ UNCHANGED <<postgres, redis, now>>

\* -------------------------------------------------------------- addGuildAlert
\* The alerts callers add.
AlertInputs ==
    {[inviteCount |-> "#5", channelID |-> "c1", message |-> "gg", type |-> "up"]}

\* INSERT INTO guild_alerts ... RETURNING id
addGuildAlert(p, g, inviteCount, channelID, message, type) ==
    /\ Idle(p)
    /\ LET args == [guildID |-> g, inviteCount |-> inviteCount, channelID |-> channelID,
                    message |-> message, type |-> type]
           alertID == NumberNames[guild_alerts_id_seq + 2]
       IN \/ /\ RejectAtCall(p, "addGuildAlert", args, "postgres_error")
             /\ UNCHANGED alertTables
          \/ /\ guild_alerts_id_seq' = guild_alerts_id_seq + 1
             /\ guild_alerts' = Append(guild_alerts,
                    [id |-> alertID, guild_id |-> g, invite_count |-> pgParam(inviteCount),
                     channel_id |-> pgParam(channelID), message |-> pgParam(message),
                     alert_type |-> pgParam(type)])
             /\ Begin(p, "aga_getString",
                      [op |-> "addGuildAlert", args |-> args, alertID |-> alertID,
                       alerts |-> <<>>])
    /\ UNCHANGED <<paymentTables, members, invited_member_events, guilds, guild_storages, subscriptionTables, guild_plugins,
                   guild_blacklisted_users, redis, redisQueue, now>>

\* this.redis.getString(`guild_alerts_${guildID}`, true), and if (!alerts) return
addGuildAlert_getString(p) ==
    /\ pc[p] = "aga_getString"
    /\ RedisIdle
    /\ LET key == AlertsKey(call[p].args.guildID)
       IN \/ Reject(p, "redis_error")
          \/ IF strings[key] = <<>>
             THEN Resolve(p, UNDEFINED)
             ELSE Goto(p, "aga_setString", [call[p] EXCEPT !.alerts = strings[key][1]])
    /\ UNCHANGED <<postgres, redis, redisQueue, now>>

\* this.redis.setString(`guild_alerts_${guildID}`, JSON.stringify(newAlerts))
addGuildAlert_setString(p) ==
    /\ pc[p] = "aga_setString"
    /\ RedisIdle
    /\ LET a == call[p].args
           newAlerts == Append(call[p].alerts,
                               [id |-> call[p].alertID, guildID |-> a.guildID,
                                inviteCount |-> a.inviteCount, channelID |-> a.channelID,
                                message |-> a.message, type |-> a.type])
       IN \/ /\ Reject(p, "redis_error")
             /\ UNCHANGED strings
          \/ /\ strings' = setString(strings, AlertsKey(a.guildID), JSONList(newAlerts))
             /\ Resolve(p, UNDEFINED)
    /\ UNCHANGED <<postgres, guildHash, memberHash, redisQueue, now>>

\* ----------------------------------------------------------- updateGuildAlert
AlertSettingNames == {"channel_id", "message", "invite_count", "alert_type"}

KnownAlertSetting(settingName) == snakeCase(settingName) \in AlertSettingNames

\* The settings callers try: keys of GuildAlert with a new value each.
AlertSettingInputs == {<<"message", "wow">>, <<"type", "down">>}

updateGuildAlert(p, g, alertID, settingName, newSettingValue) ==
    /\ Idle(p)
    /\ LET args == [guildID |-> g, alertID |-> alertID, settingName |-> settingName,
                    newSettingValue |-> newSettingValue]
       IN IF ~KnownAlertSetting(settingName)
          THEN /\ RejectAtCall(p, "updateGuildAlert", args, "unknown_guild_alert_setting")
               /\ UNCHANGED redisQueue
          ELSE /\ Begin(p, "uga_both", Both("updateGuildAlert", args, "command"))
               /\ Issue(DeleteCommand(p, AlertsKey(g)))
    /\ UNCHANGED <<postgres, redis, now>>

\* this.redis.delete(`guild_alerts_${guildID}`)
updateGuildAlert_redis(p) ==
    /\ pc[p] = "uga_both"
    /\ CommandHalf(p)
    /\ UNCHANGED <<postgres, now>>

\* UPDATE guild_alerts SET ${snakeCase(settingName)} = $1 WHERE id = $2 AND guild_id = $3
updateGuildAlert_postgres(p) ==
    /\ pc[p] = "uga_both"
    /\ call[p].q = "pending"
    /\ LET a == call[p].args
       IN \/ /\ guild_alerts' =
                   [i \in DOMAIN guild_alerts |->
                       IF guild_alerts[i].id = a.alertID /\ guild_alerts[i].guild_id = a.guildID
                       THEN [guild_alerts[i] EXCEPT ![snakeCase(a.settingName)] =
                                                       pgParam(a.newSettingValue)]
                       ELSE guild_alerts[i]]
             /\ PromiseAll(p, [call[p] EXCEPT !.q = "ok"], UNDEFINED)
          \/ /\ UNCHANGED guild_alerts
             /\ PromiseAll(p, [call[p] EXCEPT !.q = "failed"], "postgres_error")
    /\ UNCHANGED <<paymentTables, members, invited_member_events, guilds, guild_storages, subscriptionTables, guild_alerts_id_seq,
                   guild_plugins, guild_blacklisted_users, redis, redisQueue, now>>

\* ----------------------------------------------------------- removeGuildAlert
removeGuildAlert(p, g, alertID) ==
    /\ Idle(p)
    /\ Begin(p, "rga_both", Both("removeGuildAlert", [guildID |-> g, alertID |-> alertID],
                                 "get"))
    /\ Issue(GetCommand(p, AlertsKey(g)))
    /\ UNCHANGED <<postgres, redis, now>>

removeGuildAlert_getString(p) ==
    /\ pc[p] = "rga_both"
    /\ GetHalf(p, AlertsKey(call[p].args.guildID), "ok")
    /\ UNCHANGED <<postgres, now>>

removeGuildAlert_setString(p) ==
    /\ pc[p] = "rga_both"
    /\ LET a == call[p].args
           newAlerts == SelectSeq(call[p].data, LAMBDA alert : Field(alert, "id") # a.alertID)
       IN SetHalf(p, AlertsKey(a.guildID), JSONList(newAlerts))
    /\ UNCHANGED <<postgres, now>>

\* DELETE FROM guild_alerts WHERE id = $1 AND guild_id = $2
removeGuildAlert_postgres(p) ==
    /\ pc[p] = "rga_both"
    /\ call[p].q = "pending"
    /\ LET a == call[p].args
       IN \/ /\ guild_alerts' =
                   SelectSeq(guild_alerts,
                             LAMBDA r : ~(r.id = a.alertID /\ r.guild_id = a.guildID))
             /\ PromiseAll(p, [call[p] EXCEPT !.q = "ok"], UNDEFINED)
          \/ /\ UNCHANGED guild_alerts
             /\ PromiseAll(p, [call[p] EXCEPT !.q = "failed"], "postgres_error")
    /\ UNCHANGED <<paymentTables, members, invited_member_events, guilds, guild_storages, subscriptionTables, guild_alerts_id_seq,
                   guild_plugins, guild_blacklisted_users, redis, redisQueue, now>>

\* ---------------------------------------------------------- fetchGuildPlugins
GuildPluginRows(g) == SelectSeq(guild_plugins, LAMBDA r : r.guild_id = g)

\* plugin_data is a json column: JSON.stringify(newPluginData) goes in and
\* the driver parses it on the way out.
PluginDataNames == <<"{enabled:true}", "{enabled:false}">>
PluginDataTexts == <<"{\"enabled\":true}", "{\"enabled\":false}">>
JSONStringify(data) == PluginDataTexts[CHOOSE i \in DOMAIN PluginDataNames : PluginDataNames[i] = data]
JSONParse(text) == PluginDataNames[CHOOSE i \in DOMAIN PluginDataTexts : PluginDataTexts[i] = text]

FormatPlugin(row) ==
    [guildID |-> row.guild_id, pluginName |-> row.plugin_name,
     pluginData |-> JSONParse(row.plugin_data)]

FormatPlugins(rows) == [i \in DOMAIN rows |-> FormatPlugin(rows[i])]

fetchGuildPlugins(p, g) ==
    /\ Idle(p)
    /\ RedisIdle
    /\ LET args == [guildID |-> g]
       IN \/ RejectAtCall(p, "fetchGuildPlugins", args, "redis_error")
          \/ IF strings[PluginsKey(g)] # <<>>
             THEN ResolveAtCall(p, "fetchGuildPlugins", args, strings[PluginsKey(g)][1])
             ELSE Begin(p, "fgp_select",
                        [op |-> "fetchGuildPlugins", args |-> args, rows |-> <<>>])
    /\ UNCHANGED <<postgres, redis, redisQueue, now>>

\* SELECT * FROM guild_plugins WHERE guild_id = $1
fetchGuildPlugins_select(p) ==
    /\ pc[p] = "fgp_select"
    /\ \/ Reject(p, "postgres_error")
       \/ Goto(p, "fgp_format", [call[p] EXCEPT !.rows = GuildPluginRows(call[p].args.guildID)])
    /\ UNCHANGED <<postgres, redis, redisQueue, now>>

\* formattedPlugins, the unawaited setString, and the return
fetchGuildPlugins_format(p) ==
    /\ pc[p] = "fgp_format"
    /\ LET formattedPlugins == FormatPlugins(call[p].rows)
       IN /\ Issue(SetCommand(p, PluginsKey(call[p].args.guildID), JSONList(formattedPlugins)))
          /\ Resolve(p, formattedPlugins)
    /\ UNCHANGED <<postgres, redis, now>>

\* ---------------------------------------------------------- updateGuildPlugin
\* The plugins callers set.
PluginInputs == {<<"welcome", "{enabled:true}">>}

updateGuildPlugin(p, g, pluginName, newPluginData) ==
    /\ Idle(p)
    /\ Begin(p, "ugp_both",
             Both("updateGuildPlugin",
                  [guildID |-> g, pluginName |-> pluginName, newPluginData |-> newPluginData],
                  "get"))
    /\ Issue(GetCommand(p, PluginsKey(g)))
    /\ UNCHANGED <<postgres, redis, now>>

\* getString(`guild_plugins_${guildID}`, true), and [...(data as GuildPlugin[])]:
\* a TypeError when the key is absent
updateGuildPlugin_getString(p) ==
    /\ pc[p] = "ugp_both"
    /\ GetHalf(p, PluginsKey(call[p].args.guildID), "TypeError")
    /\ UNCHANGED <<postgres, now>>

updateGuildPlugin_setString(p) ==
    /\ pc[p] = "ugp_both"
    /\ LET a == call[p].args
           newFormattedPlugins ==
               Append(SelectSeq(call[p].data,
                                LAMBDA plugin : Field(plugin, "pluginName") # a.pluginName),
                      [guildID |-> a.guildID, pluginName |-> a.pluginName,
                       pluginData |-> a.newPluginData])
       IN SetHalf(p, PluginsKey(a.guildID), JSONList(newFormattedPlugins))
    /\ UNCHANGED <<postgres, now>>

\* SELECT * FROM guild_plugins WHERE plugin_name = $1 AND guild_id = $2
updateGuildPlugin_select(p) ==
    /\ pc[p] = "ugp_both"
    /\ call[p].q = "pending"
    /\ LET a == call[p].args
           exists == \E i \in DOMAIN guild_plugins :
                        /\ guild_plugins[i].plugin_name = a.pluginName
                        /\ guild_plugins[i].guild_id = a.guildID
       IN \/ PromiseAll(p, [call[p] EXCEPT !.q = IF exists THEN "update" ELSE "insert"],
                        UNDEFINED)
          \/ PromiseAll(p, [call[p] EXCEPT !.q = "failed"], "postgres_error")
    /\ UNCHANGED <<postgres, redis, redisQueue, now>>

\* UPDATE guild_plugins SET plugin_data = $1 ..., or INSERT INTO guild_plugins
updateGuildPlugin_write(p) ==
    /\ pc[p] = "ugp_both"
    /\ call[p].q \in {"update", "insert"}
    /\ LET a == call[p].args
       IN \/ /\ guild_plugins' =
                   IF call[p].q = "update"
                   THEN [i \in DOMAIN guild_plugins |->
                           IF /\ guild_plugins[i].plugin_name = a.pluginName
                              /\ guild_plugins[i].guild_id = a.guildID
                           THEN [guild_plugins[i] EXCEPT
                                    !.plugin_data = JSONStringify(a.newPluginData)]
                           ELSE guild_plugins[i]]
                   ELSE Append(guild_plugins,
                               [plugin_data |-> JSONStringify(a.newPluginData),
                                plugin_name |-> a.pluginName, guild_id |-> a.guildID])
             /\ PromiseAll(p, [call[p] EXCEPT !.q = "ok"], UNDEFINED)
          \/ /\ UNCHANGED guild_plugins
             /\ PromiseAll(p, [call[p] EXCEPT !.q = "failed"], "postgres_error")
    /\ UNCHANGED <<paymentTables, members, invited_member_events, guilds, guild_storages, subscriptionTables, alertTables,
                   guild_blacklisted_users, redis, redisQueue, now>>

\* ----------------------------------------------- fetchGuildBlacklistedUsers
formattedBlacklistedUsers(g) ==
    LET rows == SelectSeq(guild_blacklisted_users, LAMBDA r : r.guild_id = g)
    IN [i \in DOMAIN rows |-> rows[i].user_id]

fetchGuildBlacklistedUsers(p, g) ==
    /\ Idle(p)
    /\ RedisIdle
    /\ LET args == [guildID |-> g]
       IN \/ RejectAtCall(p, "fetchGuildBlacklistedUsers", args, "redis_error")
          \/ IF strings[BlacklistedKey(g)] # <<>>
             THEN ResolveAtCall(p, "fetchGuildBlacklistedUsers", args,
                                strings[BlacklistedKey(g)][1])
             ELSE Begin(p, "fgb_select",
                        [op |-> "fetchGuildBlacklistedUsers", args |-> args, users |-> <<>>])
    /\ UNCHANGED <<postgres, redis, redisQueue, now>>

\* SELECT * FROM guild_blacklisted_users WHERE guild_id = $1
fetchGuildBlacklistedUsers_select(p) ==
    /\ pc[p] = "fgb_select"
    /\ \/ Reject(p, "postgres_error")
       \/ Goto(p, "fgb_format",
               [call[p] EXCEPT !.users = formattedBlacklistedUsers(call[p].args.guildID)])
    /\ UNCHANGED <<postgres, redis, redisQueue, now>>

\* the unawaited setString (a list of strings is its own JSON round trip),
\* and the return
fetchGuildBlacklistedUsers_format(p) ==
    /\ pc[p] = "fgb_format"
    /\ Issue(SetCommand(p, BlacklistedKey(call[p].args.guildID), call[p].users))
    /\ Resolve(p, call[p].users)
    /\ UNCHANGED <<postgres, redis, now>>

\* ------------------------------------------------- addGuildBlacklistedUser
\* The users callers blacklist.
Users == {"u1"}

addGuildBlacklistedUser(p, g, userID) ==
    /\ Idle(p)
    /\ Begin(p, "agb_both", Both("addGuildBlacklistedUser",
                                 [guildID |-> g, userID |-> userID], "get"))
    /\ Issue(GetCommand(p, BlacklistedKey(g)))
    /\ UNCHANGED <<postgres, redis, now>>

addGuildBlacklistedUser_getString(p) ==
    /\ pc[p] = "agb_both"
    /\ GetHalf(p, BlacklistedKey(call[p].args.guildID), "ok")
    /\ UNCHANGED <<postgres, now>>

addGuildBlacklistedUser_setString(p) ==
    /\ pc[p] = "agb_both"
    /\ SetHalf(p, BlacklistedKey(call[p].args.guildID),
               Append(call[p].data, call[p].args.userID))
    /\ UNCHANGED <<postgres, now>>

\* INSERT INTO guild_blacklisted_users (user_id, guild_id)
addGuildBlacklistedUser_postgres(p) ==
    /\ pc[p] = "agb_both"
    /\ call[p].q = "pending"
    /\ LET a == call[p].args
       IN \/ /\ guild_blacklisted_users' =
                   Append(guild_blacklisted_users, [user_id |-> a.userID, guild_id |-> a.guildID])
             /\ PromiseAll(p, [call[p] EXCEPT !.q = "ok"], UNDEFINED)
          \/ /\ UNCHANGED guild_blacklisted_users
             /\ PromiseAll(p, [call[p] EXCEPT !.q = "failed"], "postgres_error")
    /\ UNCHANGED <<paymentTables, members, invited_member_events, guilds, guild_storages, subscriptionTables, alertTables, guild_plugins,
                   redis, redisQueue, now>>

\* ---------------------------------------------- removeGuildBlacklistedUser
removeGuildBlacklistedUser(p, g, userID) ==
    /\ Idle(p)
    /\ Begin(p, "rgb_both", Both("removeGuildBlacklistedUser",
                                 [guildID |-> g, userID |-> userID], "get"))
    /\ Issue(GetCommand(p, BlacklistedKey(g)))
    /\ UNCHANGED <<postgres, redis, now>>

removeGuildBlacklistedUser_getString(p) ==
    /\ pc[p] = "rgb_both"
    /\ GetHalf(p, BlacklistedKey(call[p].args.guildID), "ok")
    /\ UNCHANGED <<postgres, now>>

removeGuildBlacklistedUser_setString(p) ==
    /\ pc[p] = "rgb_both"
    /\ SetHalf(p, BlacklistedKey(call[p].args.guildID),
               SelectSeq(call[p].data, LAMBDA id : id # call[p].args.userID))
    /\ UNCHANGED <<postgres, now>>

\* DELETE FROM guild_blacklisted_users WHERE user_id = $1 AND guild_id = $2
removeGuildBlacklistedUser_postgres(p) ==
    /\ pc[p] = "rgb_both"
    /\ call[p].q = "pending"
    /\ LET a == call[p].args
       IN \/ /\ guild_blacklisted_users' =
                   SelectSeq(guild_blacklisted_users,
                             LAMBDA r : ~(r.user_id = a.userID /\ r.guild_id = a.guildID))
             /\ PromiseAll(p, [call[p] EXCEPT !.q = "ok"], UNDEFINED)
          \/ /\ UNCHANGED guild_blacklisted_users
             /\ PromiseAll(p, [call[p] EXCEPT !.q = "failed"], "postgres_error")
    /\ UNCHANGED <<paymentTables, members, invited_member_events, guilds, guild_storages, subscriptionTables, alertTables, guild_plugins,
                   redis, redisQueue, now>>

\* ------------------------------------------------------- createGuildMember
MemberRows(u, g, s) ==
    SelectSeq(members, LAMBDA r : r.guild_id = g /\ r.user_id = u /\ r.storage_id = s)
StorageMemberRows(g, s) ==
    SelectSeq(members, LAMBDA r : r.guild_id = g /\ r.storage_id = s)

\* INSERT INTO members (...) VALUES ($1, $2, $3, 0, 0, 0, 0)
InsertMember(g, u, s) ==
    Append(members, [guild_id |-> g, user_id |-> u, storage_id |-> s,
                     invites_fake |-> "#0", invites_leaves |-> "#0",
                     invites_bonus |-> "#0", invites_regular |-> "#0"])

\* The cache promise of a handler that awaits Promise.all over several
\* commands, all issued when the handler was called: it fails with the first
\* command that fails, and the answers of the others are dropped.
CommandsHalf(p) ==
    /\ call[p].r = "command"
    /\ Chained(p)
    /\ LET rest == Tail(redisQueue)
           more == \E i \in DOMAIN rest : rest[i].owner = p /\ rest[i].chained
       IN \/ /\ Execute(Head(redisQueue))
             /\ redisQueue' = rest
             /\ PromiseAll(p, [call[p] EXCEPT !.r = IF more THEN "command" ELSE "ok"],
                           UNDEFINED)
          \/ /\ UNCHANGED redis
             /\ redisQueue' = [i \in DOMAIN rest |->
                                  IF rest[i].owner = p
                                  THEN [rest[i] EXCEPT !.chained = FALSE] ELSE rest[i]]
             /\ PromiseAll(p, [call[p] EXCEPT !.r = "failed"], "redis_error")

\* The store promise when it is one statement on table members; the
\* statement fails when `breaks` holds.
MembersHalf(p, written, breaks) ==
    /\ call[p].q = "pending"
    /\ \/ /\ ~breaks
          /\ members' = written
          /\ PromiseAll(p, [call[p] EXCEPT !.q = "ok"], UNDEFINED)
       \/ /\ UNCHANGED members
          /\ PromiseAll(p, [call[p] EXCEPT !.q = "failed"], "postgres_error")

createGuildMember(p, u, g, s) ==
    /\ Idle(p)
    /\ Begin(p, "cgm_both", Both("createGuildMember",
                                 [userID |-> u, guildID |-> g, storageID |-> s], "command"))
    /\ Issue(MemberCommand(p, TRUE, MemberKey(u, g, s), [notCreated |-> "#false"]))
    /\ UNCHANGED <<postgres, redis, now>>

createGuildMember_redis(p) ==
    /\ pc[p] = "cgm_both"
    /\ CommandHalf(p)
    /\ UNCHANGED <<postgres, now>>

\* The INSERT; a second row for one (guild, user, storage) breaks the
\* table's key.
createGuildMember_postgres(p) ==
    /\ pc[p] = "cgm_both"
    /\ LET a == call[p].args
       IN MembersHalf(p, InsertMember(a.guildID, a.userID, a.storageID),
                      MemberRows(a.userID, a.guildID, a.storageID) # <<>>)
    /\ UNCHANGED <<paymentTables, guilds, guild_storages, collectionTables, invited_member_events, redis,
                 redisQueue, now>>

\* -------------------------------------------------------- fetchGuildMember
\* A variant of the hit that takes the invites from a field of the hash.
CachedGuildMemberStoredInvites(h) ==
    [userID |-> Field(h, "userID"),
     guildID |-> Field(h, "guildID"),
     storageID |-> Field(h, "storageID"),
     fake |-> parseInt(Field(h, "fake")),
     leaves |-> parseInt(Field(h, "leaves")),
     bonus |-> parseInt(Field(h, "bonus")),
     regular |-> parseInt(Field(h, "regular")),
     notCreated |-> IF Field(h, "notCreated") = "true" THEN "#true" ELSE "#false",
     invites |-> parseInt(Field(h, "invites"))]

\* What a cache hit returns.
CachedGuildMember(h) ==
    [userID |-> Field(h, "userID"),
     guildID |-> Field(h, "guildID"),
     storageID |-> Field(h, "storageID"),
     fake |-> parseInt(Field(h, "fake")),
     leaves |-> parseInt(Field(h, "leaves")),
     bonus |-> parseInt(Field(h, "bonus")),
     regular |-> parseInt(Field(h, "regular")),
     notCreated |-> IF Field(h, "notCreated") = "true" THEN "#true" ELSE "#false",
     invites |-> NetInvites(parseInt(Field(h, "regular")), parseInt(Field(h, "bonus")),
                            parseInt(Field(h, "leaves")), parseInt(Field(h, "fake")))]

\* formattedMember, built from rows[0] or from nothing.
FormatMember(a, rows) ==
    [userID |-> a.userID,
     guildID |-> a.guildID,
     storageID |-> a.storageID,
     fake |-> IF rows # <<>> THEN rows[1].invites_fake ELSE "#0",
     leaves |-> IF rows # <<>> THEN rows[1].invites_leaves ELSE "#0",
     bonus |-> IF rows # <<>> THEN rows[1].invites_bonus ELSE "#0",
     regular |-> IF rows # <<>> THEN rows[1].invites_regular ELSE "#0",
     notCreated |-> IF rows = <<>> THEN "#true" ELSE "#false"]

\* { ...formattedMember, invites: regular + bonus - leaves - fake }
WithInvites(m) ==
    m @@ [invites |-> NetInvites(m.regular, m.bonus, m.leaves, m.fake)]

\* await this.redis.getHashFields(`member_...`), and the hit.
fetchGuildMember(p, u, g, s) ==
    /\ Idle(p)
    /\ RedisIdle
    /\ LET args == [userID |-> u, guildID |-> g, storageID |-> s]
           h == memberHash[MemberKey(u, g, s)]
       IN \/ RejectAtCall(p, "fetchGuildMember", args, "redis_error")
          \/ IF Truthy(Field(h, "userID"))
             THEN ResolveAtCall(p, "fetchGuildMember", args, CachedGuildMember(h))
             ELSE Begin(p, "fgm_select", [op |-> "fetchGuildMember", args |-> args,
                                          rows |-> <<>>])
    /\ UNCHANGED <<postgres, redis, redisQueue, now>>

\* SELECT * FROM members WHERE guild_id = $1 AND user_id = $2 AND storage_id = $3
fetchGuildMember_select(p) ==
    /\ pc[p] = "fgm_select"
    /\ LET a == call[p].args
       IN \/ Reject(p, "postgres_error")
          \/ Goto(p, "fgm_format",
                  [call[p] EXCEPT !.rows = MemberRows(a.userID, a.guildID, a.storageID)])
    /\ UNCHANGED <<postgres, redis, redisQueue, now>>

\* A variant of the last step that awaits the setHash before it returns.
fetchGuildMember_formatAwaited(p) ==
    /\ pc[p] = "fgm_format"
    /\ LET a == call[p].args
           formattedMember == FormatMember(a, call[p].rows)
       IN /\ RedisIdle
          /\ \/ /\ memberHash' = [memberHash EXCEPT
                                      ![MemberKey(a.userID, a.guildID, a.storageID)] =
                                          setHash(@, formattedMember)]
                /\ Resolve(p, WithInvites(formattedMember))
             \/ /\ UNCHANGED memberHash
                /\ Reject(p, "redis_error")
    /\ UNCHANGED <<postgres, guildHash, strings, redisQueue, now>>

\* this.redis.setHash(`member_...`, formattedMember), not awaited, and the
\* return.
fetchGuildMember_format(p) ==
    /\ pc[p] = "fgm_format"
    /\ LET a == call[p].args
           formattedMember == FormatMember(a, call[p].rows)
       IN /\ Issue(MemberCommand(p, FALSE, MemberKey(a.userID, a.guildID, a.storageID),
                                 formattedMember))
          /\ Resolve(p, WithInvites(formattedMember))
    /\ UNCHANGED <<postgres, redis, now>>

\* -------------------------------------------------------------- addInvites
InviteTypes == {"regular", "fake", "bonus", "leaves"}

\* UPDATE members SET invites_${type} = invites_${type} + $1 WHERE ...: the
\* rows of (guild, storage) whose user is in users.
UpdateInvites(g, s, users, type, number) ==
    [i \in DOMAIN members |->
        LET r == members[i]
            column == "invites_" \o type
        IN IF r.guild_id = g /\ r.storage_id = s /\ r.user_id \in users
           THEN [r EXCEPT ![column] = Num(ToInt(@) + ToInt(number))]
           ELSE r]

\* this.redis.delete(`guild_leaderboard_...`), not awaited, then the two
\* promises.
addInvites(p, u, g, s, number, type) ==
    /\ Idle(p)
    /\ Begin(p, "ai_both", Both("addInvites",
                                [userID |-> u, guildID |-> g, storageID |-> s,
                                 number |-> number, type |-> type], "command"))
    /\ redisQueue' = redisQueue \o
           <<UnawaitedCommand(p, "del", LeaderboardKey(g, s), <<>>),
             IncrCommand(p, MemberKey(u, g, s), type, number)>>
    /\ UNCHANGED <<postgres, redis, now>>

addInvites_redis(p) ==
    /\ pc[p] = "ai_both"
    /\ CommandHalf(p)
    /\ UNCHANGED <<postgres, now>>

\* ... WHERE user_id = $2 AND guild_id = $3 AND storage_id = $4
addInvites_postgres(p) ==
    /\ pc[p] = "ai_both"
    /\ LET a == call[p].args
       IN MembersHalf(p, UpdateInvites(a.guildID, a.storageID, {a.userID}, a.type, a.number),
                      a.type \notin InviteTypes)
    /\ UNCHANGED <<paymentTables, guilds, guild_storages, collectionTables, invited_member_events, redis,
                 redisQueue, now>>

\* --------------------------------------------------------- addGuildInvites
\* usersID.map((userID) => this.redis.incrHashBy(...)), after the delete.
addGuildInvites(p, usersID, g, s, number, type) ==
    /\ Idle(p)
    /\ Begin(p, "agi_both",
             Both("addGuildInvites",
                  [usersID |-> usersID, guildID |-> g, storageID |-> s,
                   number |-> number, type |-> type],
                  IF usersID = <<>> THEN "ok" ELSE "command"))
    /\ redisQueue' = redisQueue \o
           <<UnawaitedCommand(p, "del", LeaderboardKey(g, s), <<>>)>> \o
           [i \in DOMAIN usersID |-> IncrCommand(p, MemberKey(usersID[i], g, s), type, number)]
    /\ UNCHANGED <<postgres, redis, now>>

addGuildInvites_redis(p) ==
    /\ pc[p] = "agi_both"
    /\ CommandsHalf(p)
    /\ UNCHANGED <<postgres, now>>

\* ... WHERE guild_id = $2 AND storage_id = $3: the statement names no user.
addGuildInvites_postgres(p) ==
    /\ pc[p] = "agi_both"
    /\ LET a == call[p].args
           everyUser == {members[i].user_id : i \in DOMAIN members}
       IN MembersHalf(p, UpdateInvites(a.guildID, a.storageID, everyUser, a.type, a.number),
                      a.type \notin InviteTypes)
    /\ UNCHANGED <<paymentTables, guilds, guild_storages, collectionTables, invited_member_events, redis,
                 redisQueue, now>>

\* --------------------------------------------------- fetchGuildLeaderboard
LeaderboardTTL == 10

\* invites_regular - invites_leaves + invites_bonus - invites_fake of a row.
RowInvites(r) ==
    NetInvites(r.invites_regular, r.invites_bonus, r.invites_leaves, r.invites_fake)

\* A variant of the SELECT without the condition on the invites.
LeaderboardRowsUnfiltered(g, s, limit) ==
    LET found == {i \in DOMAIN members :
                     members[i].guild_id = g /\ members[i].storage_id = s}
        n == Cardinality(found)
        orders == {o \in [1..n -> found] :
                      /\ \A i, j \in 1..n : i # j => o[i] # o[j]
                      /\ \A i \in 1..n : \A j \in i..n :
                            ToInt(RowInvites(members[o[i]]))
                                >= ToInt(RowInvites(members[o[j]]))}
        count == IF Truthy(limit) /\ ToInt(limit) < n THEN ToInt(limit) ELSE n
    IN {[i \in 1..count |-> members[o[i]]] : o \in orders}

\* The answers of the SELECT: the rows of (guild, storage) with invites
\* above 0, the most invites first, rows with equal invites in any order,
\* and the first `limit` of them when there is a limit.
LeaderboardRows(g, s, limit) ==
    LET found == {i \in DOMAIN members :
                     /\ members[i].guild_id = g
                     /\ members[i].storage_id = s
                     /\ ToInt(RowInvites(members[i])) > 0}
        n == Cardinality(found)
        orders == {o \in [1..n -> found] :
                      /\ \A i, j \in 1..n : i # j => o[i] # o[j]
                      /\ \A i \in 1..n : \A j \in i..n :
                            ToInt(RowInvites(members[o[i]]))
                                >= ToInt(RowInvites(members[o[j]]))}
        count == IF Truthy(limit) /\ ToInt(limit) < n THEN ToInt(limit) ELSE n
    IN {[i \in 1..count |-> members[o[i]]] : o \in orders}

\* formattedMembers
FormatLeaderboard(rows) ==
    [i \in DOMAIN rows |->
        [guildID |-> rows[i].guild_id,
         userID |-> rows[i].user_id,
         invites |-> NetInvites(rows[i].invites_regular, rows[i].invites_bonus,
                                rows[i].invites_leaves, rows[i].invites_fake),
         regular |-> rows[i].invites_regular,
         leaves |-> rows[i].invites_leaves,
         bonus |-> rows[i].invites_bonus,
         fake |-> rows[i].invites_fake]]

\* A variant of the call that reads the store whatever the cache holds.
fetchGuildLeaderboardUncached(p, g, s, limit) ==
    /\ Idle(p)
    /\ RedisIdle
    /\ LET args == [guildID |-> g, storageID |-> s, limit |-> limit]
       IN \/ RejectAtCall(p, "fetchGuildLeaderboard", args, "redis_error")
          \/ Begin(p, "fgl_select", [op |-> "fetchGuildLeaderboard", args |-> args,
                                     rows |-> <<>>])
    /\ UNCHANGED <<postgres, redis, redisQueue, now>>

\* await this.redis.getString(`guild_leaderboard_...`, true), and the hit.
fetchGuildLeaderboard(p, g, s, limit) ==
    /\ Idle(p)
    /\ RedisIdle
    /\ LET args == [guildID |-> g, storageID |-> s, limit |-> limit]
           key == LeaderboardKey(g, s)
       IN \/ RejectAtCall(p, "fetchGuildLeaderboard", args, "redis_error")
          \/ IF strings[key] # <<>>
             THEN ResolveAtCall(p, "fetchGuildLeaderboard", args, strings[key][1])
             ELSE Begin(p, "fgl_select", [op |-> "fetchGuildLeaderboard", args |-> args,
                                          rows |-> <<>>])
    /\ UNCHANGED <<postgres, redis, redisQueue, now>>

\* SELECT ... FROM members WHERE ... > 0 ORDER BY ... DESC LIMIT ...
fetchGuildLeaderboard_select(p) ==
    /\ pc[p] = "fgl_select"
    /\ LET a == call[p].args
       IN \/ Reject(p, "postgres_error")
          \/ \E rows \in LeaderboardRows(a.guildID, a.storageID, a.limit) :
                Goto(p, "fgl_format", [call[p] EXCEPT !.rows = rows])
    /\ UNCHANGED <<postgres, redis, redisQueue, now>>

\* this.redis.setString(...) and this.redis.client.expire(..., 10), neither
\* awaited, and the return.
fetchGuildLeaderboard_format(p) ==
    /\ pc[p] = "fgl_format"
    /\ LET a == call[p].args
           key == LeaderboardKey(a.guildID, a.storageID)
           formattedMembers == FormatLeaderboard(call[p].rows)
       IN /\ redisQueue' = redisQueue \o
                 <<UnawaitedCommand(p, "set", key, JSONList(formattedMembers)),
                   UnawaitedCommand(p, "expire", key, LeaderboardTTL)>>
          /\ Resolve(p, formattedMembers)
    /\ UNCHANGED <<postgres, redis, now>>

\* -------------------------------------------------- fetchGuildMemberEvents
\* SELECT * FROM invited_member_events WHERE (user_id = $1 OR
\* inviter_user_id = $1) AND guild_id = $2
MemberEventRows(u, g) ==
    SelectSeq(invited_member_events,
              LAMBDA r : (r.user_id = u \/ r.inviter_user_id = u) /\ r.guild_id = g)

\* formattedEvents
FormatEvents(rows) ==
    [i \in DOMAIN rows |->
        [userID |-> rows[i].user_id,
         guildID |-> rows[i].guild_id,
         eventType |-> rows[i].event_type,
         eventDate |-> Num(getTime(rows[i].event_date)),
         joinType |-> rows[i].join_type,
         inviterID |-> rows[i].inviter_user_id,
         inviteData |-> rows[i].invite_data,
         storageID |-> rows[i].storage_id,
         joinFake |-> rows[i].join_fake]]

\* await this.redis.getString(`member_..._events`, true), and the hit.
fetchGuildMemberEvents(p, u, g) ==
    /\ Idle(p)
    /\ RedisIdle
    /\ LET args == [userID |-> u, guildID |-> g]
       IN \/ RejectAtCall(p, "fetchGuildMemberEvents", args, "redis_error")
          \/ IF strings[EventsKey(u, g)] # <<>>
             THEN ResolveAtCall(p, "fetchGuildMemberEvents", args, strings[EventsKey(u, g)][1])
             ELSE Begin(p, "fgme_select", [op |-> "fetchGuildMemberEvents", args |-> args,
                                           rows |-> <<>>])
    /\ UNCHANGED <<postgres, redis, redisQueue, now>>

fetchGuildMemberEvents_select(p) ==
    /\ pc[p] = "fgme_select"
    /\ \/ Reject(p, "postgres_error")
       \/ Goto(p, "fgme_format",
               [call[p] EXCEPT !.rows = MemberEventRows(call[p].args.userID,
                                                        call[p].args.guildID)])
    /\ UNCHANGED <<postgres, redis, redisQueue, now>>

\* this.redis.setString(..., JSON.stringify(formattedEvents)), not awaited,
\* and the return.
fetchGuildMemberEvents_format(p) ==
    /\ pc[p] = "fgme_format"
    /\ LET formattedEvents == FormatEvents(call[p].rows)
       IN /\ Issue(SetCommand(p, EventsKey(call[p].args.userID, call[p].args.guildID),
                              JSONList(formattedEvents)))
          /\ Resolve(p, formattedEvents)
    /\ UNCHANGED <<postgres, redis, now>>

\* ------------------------------------------------------- countGuildInvites
\* SUM(column) over rows: node-postgres hands a bigint, which the SUM of an
\* integer column is, to the caller as its decimal text.
Total(rows, column) ==
    IF rows = <<>> THEN 0
    ELSE LET sum[i \in 1..Len(rows)] ==
                 ToInt(rows[i][column]) + IF i = 1 THEN 0 ELSE sum[i - 1]
         IN sum[Len(rows)]
SUM(rows, column) == NumberToString(Num(Total(rows, column)))

\* The answer of SELECT guild_id, SUM(...) ... GROUP BY 1: one row when the
\* storage has members, none when it has not.
SumRows(g, s) ==
    LET rows == StorageMemberRows(g, s)
    IN IF rows = <<>> THEN <<>>
       ELSE <<[guild_id |-> g,
               invites_regular |-> SUM(rows, "invites_regular"),
               invites_fake |-> SUM(rows, "invites_fake"),
               invites_bonus |-> SUM(rows, "invites_bonus"),
               invites_leaves |-> SUM(rows, "invites_leaves")]>>

\* rows[0]?.column || 0
OrZero(rows, column) ==
    IF rows # <<>> /\ Truthy(rows[1][column]) THEN rows[1][column] ELSE "#0"

\* await this.fetchGuildStorages(guildID), previousStorageID, and the return
\* of null when there is none.
countGuildInvites(p, g, currentStorageID) ==
    /\ Idle(p)
    /\ LET args == [guildID |-> g, currentStorageID |-> currentStorageID]
       IN \/ RejectAtCall(p, "countGuildInvites", args, "postgres_error")
          \/ \E previousStorageID \in LatestOther(fetchGuildStorages(g), currentStorageID) :
                IF ~Truthy(previousStorageID)
                THEN ResolveAtCall(p, "countGuildInvites", args, NULL)
                ELSE Begin(p, "cgi_sum", [op |-> "countGuildInvites", args |-> args,
                                          previousStorageID |-> previousStorageID])
    /\ UNCHANGED <<postgres, redis, redisQueue, now>>

\* The SUM statement and the return.
countGuildInvites_sum(p) ==
    /\ pc[p] = "cgi_sum"
    /\ \/ Reject(p, "postgres_error")
       \/ LET rows == SumRows(call[p].args.guildID, call[p].previousStorageID)
          IN Resolve(p, [regular |-> OrZero(rows, "invites_regular"),
                         leaves |-> OrZero(rows, "invites_leaves"),
                         bonus |-> OrZero(rows, "invites_bonus"),
                         fake |-> OrZero(rows, "invites_fake")])
    /\ UNCHANGED <<postgres, redis, redisQueue, now>>

\* ---------------------------------------------------------------- Settle
\* The cache executes, or fails, the oldest command when no handler has a
\* continuation on it.
Settle ==
    /\ redisQueue # <<>>
    /\ ~Head(redisQueue).chained
    /\ redisQueue' = Tail(redisQueue)
    /\ \/ UNCHANGED redis
       \/ Execute(Head(redisQueue))
    /\ UNCHANGED <<postgres, pc, call, result, now, calls>>

Tick ==
    /\ now < MaxTime
    /\ now' = now + 1
    /\ UNCHANGED <<postgres, redis, pc, call, result, redisQueue, calls>>

\* A second passes in the cache: the keys with a time to live come a second
\* closer to their end, and those at their end are gone.
Second ==
    /\ \E k \in StringKeys : Len(strings[k]) = 2
    /\ strings' = [k \in StringKeys |->
                      IF Len(strings[k]) = 2
                      THEN IF strings[k][2] = 1 THEN <<>>
                           ELSE <<strings[k][1], strings[k][2] - 1>>
                      ELSE strings[k]]
    /\ UNCHANGED <<postgres, guildHash, memberHash, pc, call, result, redisQueue, now, calls>>

\* ------------------------------------------------------------------ specs
\* The stores as the handler finds them: guild G1 has never been seen; guild
\* G2 was provisioned earlier (storage s0) and has a subscription, an alert
\* and two members with invites, one of whom invited the other.  The cache
\* is empty.
InitStores ==
    /\ guilds = <<[guild_id |-> "G2", guild_language |-> "en-US",
                   guild_prefix |-> "+", guild_cmd_channel |-> NULL,
                   guild_fake_threshold |-> NULL, guild_storage_id |-> "s0"]>>
    /\ guild_storages = <<[guild_id |-> "G2", storage_id |-> "s0",
                           created_at |-> toISOString(NewDate(0))]>>
    /\ subscriptions = <<[id |-> "sub1", expires_at |-> toISOString(NewDate(0)),
                          created_at |-> toISOString(NewDate(0)),
                          sub_label |-> "Premium", guilds_count |-> "#1",
                          patreon_user_id |-> "P1", cancelled |-> "#false",
                          sub_invalidated |-> "#false"]>>
    /\ guilds_subscriptions = <<[sub_id |-> "sub1", guild_id |-> "G2"]>>
    /\ payments = <<[id |-> "#1", amount |-> "#5", type |-> "paypal_dash_signup_monthly"]>>
    /\ subscriptions_payments = <<[sub_id |-> "sub1", payment_id |-> "#1"]>>
    /\ guild_alerts = <<[id |-> "#1", guild_id |-> "G2", invite_count |-> "#5",
                         channel_id |-> "c1", message |-> "gg", alert_type |-> "up"]>>
    /\ guild_alerts_id_seq = 1
    /\ guild_plugins = <<>>
    /\ guild_blacklisted_users = <<>>
    /\ members = <<[guild_id |-> "G2", user_id |-> "u1", storage_id |-> "s0",
                    invites_fake |-> "#0", invites_leaves |-> "#1",
                    invites_bonus |-> "#0", invites_regular |-> "#2"],
                   [guild_id |-> "G2", user_id |-> "u2", storage_id |-> "s0",
                    invites_fake |-> "#0", invites_leaves |-> "#0",
                    invites_bonus |-> "#0", invites_regular |-> "#1"]>>
    /\ invited_member_events =
          <<[user_id |-> "u1", guild_id |-> "G2", event_date |-> toISOString(NewDate(0)),
             event_type |-> "join", join_type |-> "normal", inviter_user_id |-> "u2",
             invite_data |-> NULL, join_fake |-> "#false", storage_id |-> "s0"]>>
    /\ guildHash = [g \in Guilds |-> EmptyHash]
    /\ memberHash = [k \in MemberKeys |-> EmptyHash]
    /\ strings = [k \in StringKeys |-> <<>>]
    /\ pc = [p \in Procs |-> "idle"]
    /\ call = [p \in Procs |-> NoCall]
    /\ result = [p \in Procs |-> NoResult]
    /\ redisQueue = <<>>
    /\ now = 0

Init == InitStores /\ calls = -1

\* Only fetchGuildSettings is called, one call after the other, on both guilds.
NextFetch ==
    \/ Tick
    \/ \E g \in Guilds : fetchGuildSettings(1, g)
    \/ fetchGuildSettings_select(1)
    \/ fetchGuildSettings_insertGuild(1)
    \/ fetchGuildSettings_insertStorage(1)
    \/ fetchGuildSettings_format(1)
    \/ Settle

SpecFetch == Init /\ [][NextFetch]_vars

\* The storage identifiers a caller can know of guild g: its epochs.
KnownStorageIDs(g) == {StorageRows(g)[i].storage_id : i \in DOMAIN StorageRows(g)}

\* The storage-rotation protocol on guild g.
RotationStep(p, g) ==
    \/ fetchGuildSettings(p, g)
    \/ fetchGuildSettings_select(p)
    \/ fetchGuildSettings_insertGuild(p)
    \/ fetchGuildSettings_insertStorage(p)
    \/ fetchGuildSettings_format(p)
    \/ removeGuildInvites(p, g)
    \/ removeGuildInvites_setHash(p)
    \/ removeGuildInvites_insert(p)
    \/ \E sid \in KnownStorageIDs(g) : restoreGuildStorage(p, g, sid)
    \/ restoreGuildStorage_redis(p)
    \/ restoreGuildStorage_postgres(p)
    \/ \E sid \in KnownStorageIDs(g) : restoreGuildInvites(p, g, sid)
    \/ restoreGuildInvites_restore(p)

\* One caller: every handler is awaited before the next one is called.
Next == Tick \/ Settle \/ RotationStep(1, "G1")

Spec == Init /\ [][Next]_vars

\* Two callers whose handlers interleave at every await, and who make
\* MaxRaceCalls calls between them.
InitRace == InitStores /\ calls = MaxRaceCalls

NextRace == Tick \/ Settle \/ \E p \in Procs : RotationStep(p, "G1")

SpecRace == InitRace /\ [][NextRace]_vars

\* The identifiers a caller can know of guild g's subscriptions and alerts.
KnownSubscriptionIDs(g) ==
    {GuildSubscriptionRows(g)[i].id : i \in DOMAIN GuildSubscriptionRows(g)}
KnownAlertIDs(g) == {GuildAlertRows(g)[i].id : i \in DOMAIN GuildAlertRows(g)}

\* The validated updates and the cached collections of guild g.
CollectionStep(p, g) ==
    \/ \E s \in SettingInputs : updateGuildSetting(p, g, s[1], s[2])
    \/ updateGuildSetting_redis(p)
    \/ updateGuildSetting_postgres(p)
    \/ fetchGuildSubscriptions(p, g)
    \/ fetchGuildSubscriptions_select(p)
    \/ fetchGuildSubscriptions_format(p)
    \/ \E s \in SubscriptionInputs : createGuildSubscription(p, g, s)
    \/ createGuildSubscription_link(p)
    \/ createGuildSubscription_getString(p)
    \/ createGuildSubscription_setString(p)
    \/ \E subID \in KnownSubscriptionIDs(g), s \in SubscriptionSettingInputs :
          updateGuildSubscription(p, subID, g, s[1], s[2])
    \/ updateGuildSubscription_getString(p)
    \/ updateGuildSubscription_setString(p)
    \/ updateGuildSubscription_postgres(p)
    \/ fetchGuildAlerts(p, g)
    \/ fetchGuildAlerts_select(p)
    \/ fetchGuildAlerts_format(p)
    \/ \E a \in AlertInputs :
          addGuildAlert(p, g, a.inviteCount, a.channelID, a.message, a.type)
    \/ addGuildAlert_getString(p)
    \/ addGuildAlert_setString(p)
    \/ \E alertID \in KnownAlertIDs(g), s \in AlertSettingInputs :
          updateGuildAlert(p, g, alertID, s[1], s[2])
    \/ updateGuildAlert_redis(p)
    \/ updateGuildAlert_postgres(p)
    \/ \E alertID \in KnownAlertIDs(g) : removeGuildAlert(p, g, alertID)
    \/ removeGuildAlert_getString(p)
    \/ removeGuildAlert_setString(p)
    \/ removeGuildAlert_postgres(p)
    \/ fetchGuildPlugins(p, g)
    \/ fetchGuildPlugins_select(p)
    \/ fetchGuildPlugins_format(p)
    \/ \E s \in PluginInputs : updateGuildPlugin(p, g, s[1], s[2])
    \/ updateGuildPlugin_getString(p)
    \/ updateGuildPlugin_setString(p)
    \/ updateGuildPlugin_select(p)
    \/ updateGuildPlugin_write(p)
    \/ fetchGuildBlacklistedUsers(p, g)
    \/ fetchGuildBlacklistedUsers_select(p)
    \/ fetchGuildBlacklistedUsers_format(p)
    \/ \E userID \in Users : addGuildBlacklistedUser(p, g, userID)
    \/ addGuildBlacklistedUser_getString(p)
    \/ addGuildBlacklistedUser_setString(p)
    \/ addGuildBlacklistedUser_postgres(p)
    \/ \E userID \in Users : removeGuildBlacklistedUser(p, g, userID)
    \/ removeGuildBlacklistedUser_getString(p)
    \/ removeGuildBlacklistedUser_setString(p)
    \/ removeGuildBlacklistedUser_postgres(p)

\* One caller on guild G2, who makes MaxCollCalls calls.
InitColl == InitStores /\ calls = MaxCollCalls

NextColl == Settle \/ CollectionStep(1, "G2")

SpecColl == InitColl /\ [][NextColl]_vars

\* One caller works on the members of guild g in storage s.
\* u1 and u2 are members of the storage, u3 is not.
MemberInputs == {"u1", "u3"}
UsersIDInputs == {<<"u1">>, <<"u1", "u3">>}
\* type is an InviteType for the compiler only: a caller can pass any text.
InviteInputs == {"regular", "leaves", "total"}

MemberStep(p, g, s) ==
    \/ \E u \in MemberInputs : createGuildMember(p, u, g, s)
    \/ createGuildMember_redis(p)
    \/ createGuildMember_postgres(p)
    \/ \E u \in MemberInputs : fetchGuildMember(p, u, g, s)
    \/ fetchGuildMember_select(p)
    \/ fetchGuildMember_format(p)
    \/ \E u \in MemberInputs, type \in InviteInputs : addInvites(p, u, g, s, "#1", type)
    \/ addInvites_redis(p)
    \/ addInvites_postgres(p)
    \/ \E usersID \in UsersIDInputs : addGuildInvites(p, usersID, g, s, "#1", "regular")
    \/ addGuildInvites_redis(p)
    \/ addGuildInvites_postgres(p)
    \/ \E limit \in {UNDEFINED, "#1"} : fetchGuildLeaderboard(p, g, s, limit)
    \/ fetchGuildLeaderboard_select(p)
    \/ fetchGuildLeaderboard_format(p)
    \/ fetchGuildMemberEvents(p, "u1", g)
    \/ fetchGuildMemberEvents_select(p)
    \/ fetchGuildMemberEvents_format(p)

InitMember == InitStores /\ calls = MaxMemberCalls
NextMember == Second \/ Settle \/ MemberStep(1, "G2", "s0")
SpecMember == InitMember /\ [][NextMember]_vars

\* One caller resets and restores the invites of guild g, and reads the
\* members and the totals of its storages.
EpochStep(p, g) ==
    \/ removeGuildInvites(p, g)
    \/ removeGuildInvites_setHash(p)
    \/ removeGuildInvites_insert(p)
    \/ \E s \in KnownStorageIDs(g) : restoreGuildInvites(p, g, s)
    \/ restoreGuildInvites_restore(p)
    \/ restoreGuildStorage_redis(p)
    \/ restoreGuildStorage_postgres(p)
    \/ \E u \in MemberInputs, s \in KnownStorageIDs(g) : fetchGuildMember(p, u, g, s)
    \/ fetchGuildMember_select(p)
    \/ fetchGuildMember_format(p)
    \/ \E s \in KnownStorageIDs(g) : countGuildInvites(p, g, s)
    \/ countGuildInvites_sum(p)
    \/ \E s \in KnownStorageIDs(g) : addInvites(p, "u1", g, s, "#1", "regular")
    \/ addInvites_redis(p)
    \/ addInvites_postgres(p)

InitEpoch == InitStores /\ calls = MaxEpochCalls
NextEpoch == Tick \/ Settle \/ EpochStep(1, "G2")
SpecEpoch == InitEpoch /\ [][NextEpoch]_vars

\* One caller resets and restores the invites of guild g, creates members
\* under the storage the guild's pointer names, and adds invites under the
\* storages it has seen.
CurrentStep(p, g) ==
    \/ removeGuildInvites(p, g)
    \/ removeGuildInvites_setHash(p)
    \/ removeGuildInvites_insert(p)
    \/ \E s \in KnownStorageIDs(g) : restoreGuildInvites(p, g, s)
    \/ restoreGuildInvites_restore(p)
    \/ restoreGuildStorage_redis(p)
    \/ restoreGuildStorage_postgres(p)
    \/ createGuildMember(p, "u3", g, Pointer(g))
    \/ createGuildMember_redis(p)
    \/ createGuildMember_postgres(p)
    \/ \E s \in KnownStorageIDs(g) \cup {Pointer(g)} :
          addInvites(p, "u1", g, s, "#1", "regular")
    \/ addInvites_redis(p)
    \/ addInvites_postgres(p)

InitCurrent == InitStores /\ calls = MaxCurrentCalls
NextCurrent == Tick \/ Settle \/ CurrentStep(1, "G2")
SpecCurrent == InitCurrent /\ [][NextCurrent]_vars

\* One caller creates payments and subscriptions for guild g and asks for
\* the guild's subscription status.
StatusStep(p, g) ==
    \/ \E subID \in KnownSubscriptionIDs(g), payment \in PaymentInputs :
          createSubscriptionPayment(p, subID, payment)
    \/ createSubscriptionPayment_link(p)
    \/ \E s \in SubscriptionInputs : createGuildSubscription(p, g, s)
    \/ createGuildSubscription_link(p)
    \/ createGuildSubscription_getString(p)
    \/ createGuildSubscription_setString(p)
    \/ fetchGuildSubscriptionStatus(p, g)
    \/ fetchGuildSubscriptionStatus_select(p)
    \/ fetchGuildSubscriptionStatus_format(p)
    \/ fetchGuildSubscriptionStatus_payments(p)

InitStatus == InitStores /\ calls = MaxStatusCalls
NextStatus == Settle \/ StatusStep(1, "G2")
SpecStatus == InitStatus /\ [][NextStatus]_vars

\* Two callers read guild g's blacklist and add to it, each its own user;
\* their handlers interleave at every await.
BlacklistInput(p) == IF p = 1 THEN "u1" ELSE "u2"

LostStep(p, g) ==
    \/ fetchGuildBlacklistedUsers(p, g)
    \/ fetchGuildBlacklistedUsers_select(p)
    \/ fetchGuildBlacklistedUsers_format(p)
    \/ addGuildBlacklistedUser(p, g, BlacklistInput(p))
    \/ addGuildBlacklistedUser_getString(p)
    \/ addGuildBlacklistedUser_setString(p)
    \/ addGuildBlacklistedUser_postgres(p)

InitLost == InitStores /\ calls = MaxLostCalls
NextLost == Settle \/ \E p \in Procs : LostStep(p, "G2")
SpecLost == InitLost /\ [][NextLost]_vars

\* Two callers read member u1 of guild g's storage s and add invites to it.
StaleStep(p, g, s) ==
    \/ fetchGuildMember(p, "u1", g, s)
    \/ fetchGuildMember_select(p)
    \/ fetchGuildMember_format(p)
    \/ addInvites(p, "u1", g, s, "#1", "regular")
    \/ addInvites_redis(p)
    \/ addInvites_postgres(p)

InitStale == InitStores /\ calls = MaxStaleCalls
NextStale == Settle \/ \E p \in Procs : StaleStep(p, "G2", "s0")
SpecStale == InitStale /\ [][NextStale]_vars

\* One caller writes to the hashes of guild g and of its members, whether
\* they are populated or not, and reads the settings and the members.
PartialStep(p, g) ==
    \/ fetchGuildSettings(p, g)
    \/ fetchGuildSettings_select(p)
    \/ fetchGuildSettings_format(p)
    \/ \E s \in SettingInputs : updateGuildSetting(p, g, s[1], s[2])
    \/ updateGuildSetting_redis(p)
    \/ updateGuildSetting_postgres(p)
    \/ removeGuildInvites(p, g)
    \/ removeGuildInvites_setHash(p)
    \/ removeGuildInvites_insert(p)
    \/ \E sid \in KnownStorageIDs(g) : restoreGuildStorage(p, g, sid)
    \/ restoreGuildStorage_redis(p)
    \/ restoreGuildStorage_postgres(p)
    \/ \E u \in MemberInputs : createGuildMember(p, u, g, "s0")
    \/ createGuildMember_redis(p)
    \/ createGuildMember_postgres(p)
    \/ \E u \in MemberInputs, type \in InviteInputs : addInvites(p, u, g, "s0", "#1", type)
    \/ addInvites_redis(p)
    \/ addInvites_postgres(p)
    \/ \E u \in MemberInputs : fetchGuildMember(p, u, g, "s0")
    \/ fetchGuildMember_select(p)
    \/ fetchGuildMember_format(p)

InitPartial == InitStores /\ calls = MaxPartialCalls
NextPartial == Settle \/ PartialStep(1, "G2")
SpecPartial == InitPartial /\ [][NextPartial]_vars

\* ----------------------------------------------------------------- claims
\* Caller p's last handler has answered and left nothing behind.
Quiet(p) == pc[p] = "idle" /\ NothingPending(p)

Settled(p, op, status) ==
    /\ pc[p] = "idle"
    /\ result[p].op = op
    /\ result[p].status = status

DefaultGuildRow(g, sid) ==
    [guild_id |-> g, guild_language |-> "en-US", guild_prefix |-> "+",
     guild_cmd_channel |-> NULL, guild_fake_threshold |-> NULL, guild_storage_id |-> sid]

\* C1: the fetchGuildSettings call that finds no guilds row leaves exactly one
\* guilds row, with the default settings, and exactly one guild_storages row,
\* whose storageID is the row's pointer and the call's answer; every
\* fetchGuildSettings that resolves for a guild with an epoch answers the
\* pointer, and the guild still has one guilds row and one guild_storages row.
C1_ProvisionOnce ==
    \A p \in Procs :
        /\ (pc[p] = "fgs_format" /\ call[p].created) =>
              LET g == call[p].args.guildID
                  sid == FormatGuildSettings(call[p].rows[1]).storageID
              IN /\ GuildRows(g) = <<DefaultGuildRow(g, sid)>>
                 /\ Len(StorageRows(g)) = 1
                 /\ StorageRows(g)[1].storage_id = sid
        /\ (Settled(p, "fetchGuildSettings", "resolved")
                /\ StorageRows(result[p].args.guildID) # <<>>) =>
              LET g == result[p].args.guildID
              IN /\ Len(GuildRows(g)) = 1
                 /\ Len(StorageRows(g)) = 1
                 /\ result[p].value.storageID = Pointer(g)
                 /\ StorageRows(g)[1].storage_id = Pointer(g)

\* A fetchGuildSettings of G1 answered from the cache that an earlier
\* fetchGuildSettings populated, after the first one provisioned the guild.
C1_Witness ==
    /\ Settled(1, "fetchGuildSettings", "resolved")
    /\ result[1].args.guildID = "G1"
    /\ result[1].value.guildID = "G1"
    /\ Field(guildHash["G1"], "guildID") = "G1"
    /\ Len(StorageRows("G1")) = 1

\* C2: the fetchGuildSettings call that provisions guild G returns guildID G,
\* language en-US, prefix +, cmdChannel null, fakeThreshold null and the new
\* storageID.
C2_FirstFetchReturnsDefaults ==
    \A p \in Procs :
        (pc[p] = "fgs_format" /\ call[p].created) =>
            FormatGuildSettings(call[p].rows[1]) =
                [guildID |-> call[p].args.guildID, storageID |-> Pointer(call[p].args.guildID),
                 language |-> "en-US", prefix |-> "+",
                 cmdChannel |-> NULL, fakeThreshold |-> NULL]

\* The store statements that caller p's write-through handler has issued so
\* far have succeeded, and only its cache call is still to be answered.
StoreSucceeded(p) ==
    \/ pc[p] = "rgi_setHash"
    \/ pc[p] \in {"rgs_both", "ugs_both"} /\ call[p].q = "ok"

\* C3: a write-through handler whose store statement has succeeded does not
\* answer with the failure of its cache call.
C3_CacheFailureNotReported ==
    [][\A p \in Procs :
          (/\ StoreSucceeded(p)
           /\ result[p].status = "none"
           /\ result'[p].status = "rejected")
          => result'[p].value # "redis_error"]_vars

\* C4: while restoreGuildInvites(guildID, currentStorageID) runs for a guild
\* with no epoch other than currentStorageID, the guilds table and the cached
\* guild hash do not change.
C4_NothingToRestoreIsNoOp ==
    [][\A p \in Procs :
          (/\ pc[p] \in {"rgiv_restore", "rgs_both"}
           /\ call[p].op = "restoreGuildInvites"
           /\ \A i \in DOMAIN StorageRows(call[p].args.guildID) :
                 StorageRows(call[p].args.guildID)[i].storage_id = call[p].args.currentStorageID)
          => (guilds' = guilds /\ guildHash' = guildHash)]_vars

\* C5: a removeGuildInvites that resolves has appended an epoch whose id is
\* its answer, differs from every earlier epoch of the guild and is the
\* guild's pointer; a restoreGuildInvites(guild, current) that resolves
\* leaves the pointer on an epoch other than current that no other such
\* epoch is newer than: after two resets S2, S3 of a guild first seen with S1
\* (created before S2), restoring from S3 gives S2.
C5_RestoreTakesLatestOther ==
    \A p \in Procs :
        /\ Settled(p, "removeGuildInvites", "resolved") =>
              LET rows == StorageRows(result[p].args.guildID)
              IN /\ rows # <<>>
                 /\ rows[Len(rows)].storage_id = result[p].value
                 /\ \A i \in 1..(Len(rows) - 1) : rows[i].storage_id # result[p].value
                 /\ Pointer(result[p].args.guildID) = result[p].value
        /\ Settled(p, "restoreGuildInvites", "resolved") =>
              LET rows == StorageRows(result[p].args.guildID)
                  others == {i \in DOMAIN rows :
                                rows[i].storage_id # result[p].args.currentStorageID}
              IN others # {} =>
                    \E i \in others :
                        /\ Pointer(result[p].args.guildID) = rows[i].storage_id
                        /\ \A j \in others :
                              getTime(rows[j].created_at) <= getTime(rows[i].created_at)

\* The guild has epochs S1, S2, S3 in this order, S1 older than S2, and
\* restoreGuildInvites(G1, S3) has just put the pointer on S2.
C5_Witness ==
    /\ Settled(1, "restoreGuildInvites", "resolved")
    /\ Len(StorageRows("G1")) = 3
    /\ getTime(StorageRows("G1")[1].created_at) < getTime(StorageRows("G1")[2].created_at)
    /\ result[1].args.currentStorageID = StorageRows("G1")[3].storage_id
    /\ Pointer("G1") = StorageRows("G1")[2].storage_id
    /\ Pointer("G1") # StorageRows("G1")[1].storage_id

\* The handlers with an allow-list, and what each rejects a name with.
UnknownSettingError(op) ==
    IF op = "updateGuildAlert" THEN "unknown_guild_alert_setting" ELSE "unknown_guild_setting"

OutsideAllowList(op, settingName) ==
    CASE op = "updateGuildSetting" ->
            snakeCase(settingName) \notin
                {"language", "prefix", "cmd_channel", "fake_threshold", "storage_id"}
      [] op = "updateGuildSubscription" ->
            snakeCase(settingName) \notin
                {"expires_at", "created_at", "sub_label", "guilds_count", "patreon_user_id",
                 "cancelled", "sub_invalidated"}
      [] op = "updateGuildAlert" ->
            snakeCase(settingName) \notin {"channel_id", "message", "invite_count", "alert_type"}
      [] OTHER -> FALSE

\* What caller p's call is after the step that makes it: the running
\* handler, or the answer when the handler settled in that step.
Started(p) == IF pc'[p] # "idle" THEN call'[p] ELSE result'[p]

\* C6: the step in which updateGuildSetting, updateGuildSubscription or
\* updateGuildAlert is called with a name outside its allow-list rejects the
\* call with the unknown-setting error, issues no store statement and no
\* cache command, and leaves both stores as they were.
C6_UnknownSettingTouchesNothing ==
    [][\A p \in Procs :
          (/\ Idle(p)
           /\ calls' # calls
           /\ \A q \in Procs \ {p} : pc'[q] = pc[q] /\ result'[q] = result[q]
           /\ OutsideAllowList(Started(p).op, Started(p).args.settingName))
          => /\ pc'[p] = "idle"
             /\ result'[p].status = "rejected"
             /\ result'[p].value = UnknownSettingError(result'[p].op)
             /\ UNCHANGED <<postgres, redis, redisQueue>>]_vars

\* updateGuildAlert was called with the name type while the guild's alerts
\* were cached: it was rejected, and the cached alerts are still there.
C6_Witness ==
    /\ Settled(1, "updateGuildAlert", "rejected")
    /\ result[1].value = "unknown_guild_alert_setting"
    /\ result[1].args.settingName = "type"
    /\ strings[AlertsKey("G2")] # <<>>
    /\ guild_alerts[1].alert_type = "up"

\* The handlers that change a cached collection.
CollectionMutations ==
    {"createGuildSubscription", "updateGuildSubscription", "addGuildAlert", "removeGuildAlert",
     "updateGuildPlugin", "addGuildBlacklistedUser", "removeGuildBlacklistedUser"}

\* C7: no step of a collection mutation creates a cache key that is absent,
\* and none makes the mutation fail for the key's absence: when it rejects,
\* it rejects with a store's failure.
C7_MissSkipsCacheWrite ==
    [][\A p \in Procs :
          (pc[p] # "idle" /\ call[p].op \in CollectionMutations)
          => /\ \A key \in StringKeys : strings[key] = <<>> => strings'[key] = <<>>
             /\ (result[p].status = "none" /\ result'[p].status = "rejected")
                   => result'[p].value \in {"postgres_error", "redis_error"}]_vars

\* Two lists hold the same elements.
SameElements(l, m) ==
    /\ Len(l) = Len(m)
    /\ {l[i] : i \in DOMAIN l} = {m[i] : i \in DOMAIN m}

\* What the next fetch of the collection that op changes answers from the
\* cache, when the key is there, is what it would answer from the store.
FetchAgrees(op, g) ==
    CASE op \in {"createGuildSubscription", "updateGuildSubscription"} ->
            strings[SubscriptionsKey(g)] # <<>> =>
                SameElements(strings[SubscriptionsKey(g)][1],
                             JSONList(FormatSubscriptions(GuildSubscriptionRows(g))))
      [] op \in {"addGuildAlert", "removeGuildAlert", "updateGuildAlert"} ->
            strings[AlertsKey(g)] # <<>> =>
                SameElements(CachedAlerts(strings[AlertsKey(g)][1]),
                             FormatAlerts(GuildAlertRows(g)))
      [] op = "updateGuildPlugin" ->
            strings[PluginsKey(g)] # <<>> =>
                SameElements(strings[PluginsKey(g)][1],
                             JSONList(FormatPlugins(GuildPluginRows(g))))
      [] op \in {"addGuildBlacklistedUser", "removeGuildBlacklistedUser"} ->
            strings[BlacklistedKey(g)] # <<>> =>
                SameElements(strings[BlacklistedKey(g)][1], formattedBlacklistedUsers(g))
      [] OTHER -> TRUE

\* C8: once a mutation of a cached collection has resolved and nothing is in
\* flight, the next fetch of the collection answers the entities the store
\* holds, with the same field values.
C8_NextFetchReflectsStore ==
    \A p \in Procs :
        (/\ pc[p] = "idle"
         /\ result[p].status = "resolved"
         /\ \A q \in Procs : Quiet(q))
        => FetchAgrees(result[p].op, result[p].args.guildID)

\* C9: once removeGuildInvites has resolved with the new storageID, the guild
\* still points to it and nothing is in flight any more, a cached guild
\* entry that is present (one that fetchGuildSettings answers from) has the
\* new storageID.
C9_CacheCarriesNewStorage ==
    \A p \in Procs :
        (/\ Settled(p, "removeGuildInvites", "resolved")
         /\ \A q \in Procs : Quiet(q)
         /\ Pointer(result[p].args.guildID) = result[p].value
         /\ Truthy(Field(guildHash[result[p].args.guildID], "guildID")))
        => Field(guildHash[result[p].args.guildID], "storageID") = result[p].value

\* C10: no step of restoreGuildStorage or restoreGuildInvites, from the call
\* to the last store call they leave behind, changes the guild_storages
\* table.
C10_RestoreKeepsStorages ==
    [][(\E p \in Procs :
          \/ pc[p] \in {"rgiv_restore", "rgs_both"}
          \/ pc'[p] \in {"rgiv_restore", "rgs_both"})
       => guild_storages' = guild_storages]_vars

\* A restore has moved the pointer back to an older epoch, and the epoch that
\* was current before it is still in the table.
C10_Witness ==
    /\ Settled(1, "restoreGuildStorage", "resolved")
    /\ Len(StorageRows("G1")) = 2
    /\ Pointer("G1") = StorageRows("G1")[1].storage_id
    /\ StorageRows("G1")[2].storage_id # Pointer("G1")

\* The rows of table members of guild g in storage s, as the counters of
\* each user.
Counters(g, s) ==
    {[userID |-> r.user_id, regular |-> r.invites_regular, leaves |-> r.invites_leaves,
      bonus |-> r.invites_bonus, fake |-> r.invites_fake] :
        r \in {StorageMemberRows(g, s)[i] : i \in DOMAIN StorageMemberRows(g, s)}}

\* Caller p is in a reset or a restore of the invites, before or after the
\* step.
Rotating(p) ==
    \/ pc[p] \in {"rgi_setHash", "rgi_insert", "rgiv_restore", "rgs_both"}
    \/ pc'[p] \in {"rgi_setHash", "rgi_insert", "rgiv_restore", "rgs_both"}

\* C11: no step of removeGuildInvites, or of the restore that undoes it,
\* changes a row of table members or a member's hash in the cache; and a
\* fetchGuildMember that reads the store answers with the counters of the
\* row of the storage it was asked for, whatever the guild's current
\* storage is.
C11_ResetKeepsMembers ==
    [][\A p \in Procs :
          /\ Rotating(p) => (members' = members /\ memberHash' = memberHash)
          /\ (pc[p] = "fgm_format" /\ pc'[p] = "idle"
                /\ result'[p].value.notCreated = "#false")
                => LET v == result'[p].value
                   IN [userID |-> v.userID, regular |-> v.regular, leaves |-> v.leaves,
                       bonus |-> v.bonus, fake |-> v.fake]
                          \in Counters(v.guildID, v.storageID)]_vars

\* The invites were reset, the guild's current storage is a new one, and a
\* read addressed to the old storage has returned the member's counters.
C11_Witness ==
    /\ Settled(1, "fetchGuildMember", "resolved")
    /\ Pointer("G2") # "s0"
    /\ result[1].args.storageID = "s0"
    /\ result[1].value.regular = "#2"
    /\ result[1].value.leaves = "#1"
    /\ result[1].value.invites = "#1"

\* The per-counter sums of the members of guild g in storage s, as numbers.
CounterSums(g, s) ==
    LET rows == StorageMemberRows(g, s)
    IN [regular |-> Num(Total(rows, "invites_regular")),
        leaves |-> Num(Total(rows, "invites_leaves")),
        bonus |-> Num(Total(rows, "invites_bonus")),
        fake |-> Num(Total(rows, "invites_fake"))]

\* C12: countGuildInvites(guildID, currentStorageID) returns null when the
\* guild has no storage other than currentStorageID, and otherwise the sums
\* of the four counters over the members of the most recently created other
\* storage, each 0 when that storage has no members.
C12_CountReturnsSums ==
    \A p \in Procs :
        Settled(p, "countGuildInvites", "resolved") =>
            LET a == result[p].args
                previous == LatestOther(fetchGuildStorages(a.guildID), a.currentStorageID)
            IN IF previous = {UNDEFINED}
               THEN result[p].value = NULL
               ELSE \E s \in previous : result[p].value = CounterSums(a.guildID, s)

\* The handlers that write to both stores and await Promise.all over the two
\* promises.
DualWrites ==
    {"updateGuildSetting", "restoreGuildStorage", "restoreGuildInvites",
     "updateGuildSubscription", "updateGuildAlert", "removeGuildAlert", "updateGuildPlugin",
     "addGuildBlacklistedUser", "removeGuildBlacklistedUser", "createGuildMember",
     "addInvites", "addGuildInvites"}

\* C13: when a handler that writes to both stores has answered, its store
\* call and its cache calls have all settled: none of them is still in
\* flight.
C13_DualWriteWaitsForBoth ==
    \A p \in Procs :
        (result[p].op \in DualWrites /\ result[p].status # "none")
            => (pc[p] = "idle" /\ NothingPending(p))

\* The store promise of caller p's Promise.all has failed.
StoreHalfFailed(p) == pc[p] # "idle" /\ "q" \in DOMAIN call[p] /\ call[p].q = "failed"

PopulationLabels ==
    {"fgs_format", "fsubs_format", "fga_format", "fgp_format", "fgb_format", "fgm_format",
     "fgl_format", "fgme_format"}

CacheHit(op, a) ==
    CASE op = "fetchGuildSettings" -> Truthy(Field(guildHash[a.guildID], "guildID"))
      [] op = "fetchGuildMember" ->
             Truthy(Field(memberHash[MemberKey(a.userID, a.guildID, a.storageID)], "userID"))
      [] op = "fetchGuildLeaderboard" ->
             strings[LeaderboardKey(a.guildID, a.storageID)] # <<>>
      [] op = "fetchGuildMemberEvents" -> strings[EventsKey(a.userID, a.guildID)] # <<>>
      [] op = "fetchGuildSubscriptions" -> strings[SubscriptionsKey(a.guildID)] # <<>>
      [] op = "fetchGuildAlerts" -> strings[AlertsKey(a.guildID)] # <<>>
      [] op = "fetchGuildPlugins" -> strings[PluginsKey(a.guildID)] # <<>>
      [] op = "fetchGuildBlacklistedUsers" -> strings[BlacklistedKey(a.guildID)] # <<>>
      [] OTHER -> FALSE

StoreInvites(e, s) ==
    LET rows == MemberRows(e.userID, e.guildID, s)
    IN IF rows = <<>> THEN 0 ELSE ToInt(RowInvites(rows[1]))

SortedLeaderboard(v) ==
    /\ \A i \in DOMAIN v :
          /\ ToInt(v[i].invites) > 0
          /\ v[i].invites = NetInvites(v[i].regular, v[i].bonus, v[i].leaves, v[i].fake)
    /\ \A i \in DOMAIN v : \A j \in DOMAIN v :
          i < j => ToInt(v[i].invites) >= ToInt(v[j].invites)

Pending(k) ==
    \E i \in DOMAIN redisQueue :
        redisQueue[i].cmd \in {"set", "expire", "del"} /\ redisQueue[i].key = k

\* C18: a leaderboard entry in the cache, once the commands that wrote it
\* are worked off, has a time to live of at most LeaderboardTTL seconds, so
\* that it is gone that many seconds later at the latest.
C18_LeaderboardEntryExpires ==
    \A g \in Guilds, s \in StorageNames :
        LET k == LeaderboardKey(g, s)
        IN (strings[k] # <<>> /\ ~Pending(k))
              => (Len(strings[k]) = 2 /\ strings[k][2] <= LeaderboardTTL)

C20_GuildInvitesOnlyListedUsers ==
    [][\A p \in Procs :
          (/\ pc[p] = "agi_both"
           /\ call[p].q = "pending"
           /\ members' # members)
             => LET a == call[p].args
                    listed == {a.usersID[i] : i \in DOMAIN a.usersID}
                IN members' = UpdateInvites(a.guildID, a.storageID, listed, a.type,
                                            a.number)]_vars

\* C21: while a handler that interpolates into its statement text runs, what
\* it interpolated is a name of its allow-list: the setting name of
\* updateGuildSetting, updateGuildSubscription and updateGuildAlert, the
\* counter of addInvites and addGuildInvites; and fetchGuildLeaderboard's
\* statement carries no text made from the caller's limit.
C21_OnlyValidatedNamesInStatements ==
    \A p \in Procs :
        pc[p] # "idle" =>
            LET c == call[p]
            IN /\ c.op \in {"updateGuildSetting", "updateGuildSubscription", "updateGuildAlert"}
                     => ~OutsideAllowList(c.op, c.args.settingName)
               /\ c.op \in {"addInvites", "addGuildInvites"} => c.args.type \in InviteTypes
               /\ c.op = "fetchGuildLeaderboard" => ~Truthy(c.args.limit)

\* The payments linked to one of the subscriptions subs whose type starts
\* with prefix.
LinkedPayments(subs, prefix) ==
    {i \in DOMAIN payments :
        /\ startsWith(payments[i].type, prefix)
        /\ \E l \in DOMAIN subscriptions_payments, j \in DOMAIN subs :
              /\ subscriptions_payments[l].payment_id = payments[i].id
              /\ subscriptions_payments[l].sub_id = subs[j].id}

\* C22: the status fetchGuildSubscriptionStatus returns has isPayPal true
\* exactly when a payment linked to one of the guild's subscriptions has a
\* type that starts with paypal_dash_signup, and isCancelled true exactly
\* when there are more such payments than payments whose type starts with
\* paypal_dash_cancel.
C22_StatusCountsMarkers ==
    [][\A p \in Procs :
          (pc[p] = "fgss_payments" /\ pc'[p] = "idle" /\ result'[p].status = "resolved")
             => LET signups == LinkedPayments(call[p].guildSubscriptions, "paypal_dash_signup")
                    cancels == LinkedPayments(call[p].guildSubscriptions, "paypal_dash_cancel")
                IN /\ result'[p].value.isPayPal = (signups # {})
                   /\ result'[p].value.isCancelled
                         = (Cardinality(signups) > Cardinality(cancels))]_vars

\* The guild has two subscriptions, a signup linked to one and a
\* cancellation linked to the other, and fetchGuildSubscriptionStatus has
\* answered that the guild is on PayPal and not cancelled.
C22_Witness ==
    /\ Settled(1, "fetchGuildSubscriptionStatus", "resolved")
    /\ result[1].value = [isPayPal |-> TRUE, isCancelled |-> FALSE]
    /\ Len(GuildSubscriptionRows("G2")) = 2
    /\ Cardinality(LinkedPayments(FormatSubscriptions(GuildSubscriptionRows("G2")),
                                  "paypal_dash_signup")) = 1
    /\ \E l \in DOMAIN subscriptions_payments :
          /\ subscriptions_payments[l].sub_id = "sub2"
          /\ \E i \in DOMAIN payments :
                /\ payments[i].id = subscriptions_payments[l].payment_id
                /\ payments[i].type = "paypal_dash_cancel"

\* C23: a step of addGuildAlert, removeGuildAlert or updateGuildAlert that
\* changes the guild's cached alerts deletes the key: none of them writes a
\* patched list.
C23_AlertMutationsDeleteKey ==
    [][\A p \in Procs :
          (/\ call[p].op \in {"addGuildAlert", "removeGuildAlert", "updateGuildAlert"}
           /\ pc'[p] # pc[p] \/ call'[p] # call[p]
           /\ strings'[AlertsKey(call[p].args.guildID)]
                 # strings[AlertsKey(call[p].args.guildID)])
             => strings'[AlertsKey(call[p].args.guildID)] = <<>>]_vars

\* C24: in every state of the store, each guild that has a row has a pointer
\* that is not null and is the storage id of a guild_storages row of that
\* guild.
C24_PointerNamesExistingStorage ==
    \A g \in Guilds :
        GuildRows(g) # <<>> =>
            /\ Pointer(g) # NULL
            /\ \E i \in DOMAIN guild_storages :
                  /\ guild_storages[i].guild_id = g
                  /\ guild_storages[i].storage_id = Pointer(g)

\* C25: every row of members has a guild and a storage for which a row of
\* guild_storages exists.
C25_MemberStorageExists ==
    \A i \in DOMAIN members :
        \E j \in DOMAIN guild_storages :
            /\ guild_storages[j].guild_id = members[i].guild_id
            /\ guild_storages[j].storage_id = members[i].storage_id

\* C26: a step of createGuildMember, addInvites or addGuildInvites that
\* changes the members table adds or changes only rows of the storage the
\* guild's pointer names.
C26_OnlyCurrentEpochChanges ==
    [][\A i \in DOMAIN members' :
          (i \notin DOMAIN members \/ members'[i] # members[i])
             => members'[i].storage_id = Pointer(members'[i].guild_id)]_vars

\* C27: no step deletes a row of guild_storages or changes one: every row
\* stays where it is, with its guild, storage id and date.
C27_StoragesAppendOnly ==
    [][\A i \in DOMAIN guild_storages :
          i \in DOMAIN guild_storages' /\ guild_storages'[i] = guild_storages[i]]_vars

\* removeGuildInvites has answered with the new storage id: the guild has
\* the row of its earlier storage and, after it, the row of the new one.
C27_Witness ==
    /\ Settled(1, "removeGuildInvites", "resolved")
    /\ Len(StorageRows("G1")) >= 2
    /\ StorageRows("G1")[Len(StorageRows("G1"))].storage_id = result[1].value
    /\ StorageRows("G1")[1].storage_id # result[1].value

\* C28: fetchGuildLeaderboard called with a limit answers with at most
\* limit entries, and called without one answers with every member of the
\* storage whose invites are above 0, whatever limit an earlier call had
\* when it filled the cache.
C28_LeaderboardHonoursLimit ==
    \A p \in Procs :
        Settled(p, "fetchGuildLeaderboard", "resolved") =>
            LET a == result[p].args
                positive == {i \in DOMAIN members :
                                /\ members[i].guild_id = a.guildID
                                /\ members[i].storage_id = a.storageID
                                /\ ToInt(RowInvites(members[i])) > 0}
            IN IF Truthy(a.limit)
               THEN Len(result[p].value) <= ToInt(a.limit)
               ELSE Len(result[p].value) = Cardinality(positive)

\* C29: the list that addGuildBlacklistedUser writes to the cache has every
\* user of the list that is cached at that moment: the write of one caller
\* does not drop what another caller's mutation has written since the list
\* was read.
C29_NoLostCacheUpdate ==
    [][\A p \in Procs :
          LET k == BlacklistedKey("G2")
          IN (/\ pc[p] = "agb_both"
              /\ call[p].r = "then"
              /\ call'[p] # call[p]
              /\ strings[k] # <<>>
              /\ strings'[k] # strings[k])
                => \A i \in DOMAIN strings[k][1] :
                      \E j \in DOMAIN strings'[k][1] : strings'[k][1][j] = strings[k][1][i]]_vars

\* C30: when the callers have finished and the cached hash of a member has
\* all its fields, its four counters are those of the member's row.
C30_CachedMemberMatchesRow ==
    (\A q \in Procs : Quiet(q)) =>
        \A u \in MemberUsers, g \in Guilds, s \in StorageNames :
            LET h == memberHash[MemberKey(u, g, s)]
                rows == MemberRows(u, g, s)
            IN (Truthy(Field(h, "userID")) /\ rows # <<>>) =>
                  /\ parseInt(h["regular"]) = rows[1].invites_regular
                  /\ parseInt(h["leaves"]) = rows[1].invites_leaves
                  /\ parseInt(h["bonus"]) = rows[1].invites_bonus
                  /\ parseInt(h["fake"]) = rows[1].invites_fake

\* The fields a read-through writes to a guild's hash and to a member's.
GuildHashFields == {"guildID", "storageID", "language", "prefix", "cmdChannel", "fakeThreshold"}
MemberHashFields ==
    {"userID", "guildID", "storageID", "fake", "leaves", "bonus", "regular", "notCreated"}

C32_ConcurrentProvisioningAgrees ==
    (/\ calls = MaxRaceCalls - 2
     /\ \A p \in Procs : pc[p] = "idle" /\ result[p].op = "fetchGuildSettings")
        => /\ Len(GuildRows("G1")) <= 1
           /\ Len(StorageRows("G1")) <= 1
           /\ (\A p \in Procs : result[p].status = "resolved")
                 => result[1].value.storageID = result[2].value.storageID

====
